---- MODULE Spec2Model ----
(***************************************************************************)
(* Model of the quiz-creation script classroom_criar_atividade_com_teste   *)
(* (V5): the operator pastes lines until the sentinel "fim", the lines are *)
(* joined and handed to parse_bloco, which returns the list of questions   *)
(* or prints an error and terminates the program with sys.exit(1).         *)
(*                                                                         *)
(* A line is a sequence of characters (one-character strings); the text    *)
(* handed to parse_bloco is represented by its sequence of lines, i.e. the *)
(* list main joins with "\n".                                              *)
(***************************************************************************)
EXTENDS Integers, Sequences, FiniteSets, TLC

\* Number of pasted chunks after which the operator types the sentinel.
MaxChunks == 2

(***************************************************************************)
(* Characters and the str / re primitives used by parse_bloco.             *)
(***************************************************************************)

\* U+017F LATIN SMALL LETTER LONG S: one of the four non-ASCII characters
\* that the class [A-Z] matches under re.IGNORECASE on str patterns.
LongS == "U+017F"

UpperAlpha == <<"A","B","C","D","E","F","G","H","I","J","K","L","M",
                "N","O","P","Q","R","S","T","U","V","W","X","Y","Z">>
LowerAlpha == <<"a","b","c","d","e","f","g","h","i","j","k","l","m",
                "n","o","p","q","r","s","t","u","v","w","x","y","z">>

Pos(alpha, c) == CHOOSE i \in 1..Len(alpha) : alpha[i] = c
IsUpper(c) == \E i \in 1..Len(UpperAlpha) : UpperAlpha[i] = c
IsLower(c) == \E i \in 1..Len(LowerAlpha) : LowerAlpha[i] = c

\* str.lower() on one character.
ToLower(c) == IF IsUpper(c) THEN LowerAlpha[Pos(UpperAlpha, c)] ELSE c

\* str.upper() on one character ('ſ'.upper() == 'S').
ToUpper(c) ==
    IF IsLower(c) THEN UpperAlpha[Pos(LowerAlpha, c)]
    ELSE IF c = LongS THEN "S" ELSE c

\* The class [A-Z] compiled with re.IGNORECASE.
IsLetterClass(c) == IsUpper(c) \/ IsLower(c) \/ c = LongS

\* \d
IsDigit(c) == c \in {"0","1","2","3","4","5","6","7","8","9"}

\* \s, and the characters removed by str.strip()
IsSpace(c) == c \in {" ", "\t"}

\* s[i:] of a sequence, i counted from 1
From(s, i) == IF i > Len(s) THEN <<>> ELSE SubSeq(s, i, Len(s))

\* number of leading whitespace characters
RECURSIVE LeadingSpaces(_)
LeadingSpaces(s) ==
    IF s = <<>> \/ ~IsSpace(Head(s)) THEN 0 ELSE 1 + LeadingSpaces(Tail(s))

RECURSIVE TrailingSpaces(_)
TrailingSpaces(s) ==
    IF s = <<>> \/ ~IsSpace(s[Len(s)]) THEN 0
    ELSE 1 + TrailingSpaces(SubSeq(s, 1, Len(s) - 1))

\* str.strip()
Strip(s) ==
    LET a == LeadingSpaces(s)
    IN  IF a = Len(s) THEN <<>>
        ELSE SubSeq(s, a + 1, Len(s) - TrailingSpaces(s))

\* number of leading digits
RECURSIVE LeadingDigits(_)
LeadingDigits(s) ==
    IF s = <<>> \/ ~IsDigit(Head(s)) THEN 0 ELSE 1 + LeadingDigits(Tail(s))

\* re.match(r"^P\d*:", s, re.IGNORECASE)
IsQuestionStart(s) ==
    /\ Len(s) >= 2
    /\ s[1] \in {"P", "p"}
    /\ LET d == LeadingDigits(Tail(s))
       IN  Len(s) >= d + 2 /\ s[d + 2] = ":"

\* index of the first ":" of s, 0 when there is none
RECURSIVE FirstColon(_, _)
FirstColon(s, i) ==
    IF i > Len(s) THEN 0
    ELSE IF s[i] = ":" THEN i ELSE FirstColon(s, i + 1)

\* s.split(":", 1)[1].strip() if ":" in s else ""
Depois(s) ==
    LET c == FirstColon(s, 1)
    IN  IF c = 0 THEN <<>> ELSE Strip(From(s, c + 1))

(***************************************************************************)
(* The two line patterns of a question block.                              *)
(***************************************************************************)

\* the alternative pattern, were whitespace required after the close-paren
\* (\s+ in place of \s*)
MatchAltComEspaco(l) ==
    /\ Len(l) >= 4
    /\ IsLetterClass(l[1])
    /\ l[2] = ")"
    /\ IsSpace(l[3])

\* re.match(r"([A-Z])\)\s*(.+)", l, re.IGNORECASE) succeeds
MatchAlt(l) ==
    /\ Len(l) >= 3
    /\ IsLetterClass(l[1])
    /\ l[2] = ")"

\* m_alt.group(1).lower()
AltLetra(l) == ToLower(l[1])

\* m_alt.group(2).strip(): \s* is greedy and gives one character back when
\* the rest of the line is whitespace only.
AltTexto(l) ==
    LET rest == From(l, 3)
        w    == LeadingSpaces(rest)
    IN  Strip(IF w < Len(rest) THEN From(rest, w + 1) ELSE From(rest, Len(rest)))

\* the answer-key pattern, were it anchored at the end of the line
\* (a trailing $)
MatchGabaritoAncorado(l) ==
    /\ Len(l) >= 3
    /\ l[1] \in {"G", "g"}
    /\ l[2] = ":"
    /\ LET w == LeadingSpaces(From(l, 3))
       IN  Len(l) = 3 + w /\ IsLetterClass(l[3 + w])

\* re.match(r"G:\s*([A-Z])", l, re.IGNORECASE) succeeds
MatchGabarito(l) ==
    /\ Len(l) >= 3
    /\ l[1] \in {"G", "g"}
    /\ l[2] = ":"
    /\ LET w == LeadingSpaces(From(l, 3))
       IN  Len(l) >= 3 + w /\ IsLetterClass(l[3 + w])

\* m_g.group(1).lower()
GabaritoLetra(l) == ToLower(l[3 + LeadingSpaces(From(l, 3))])

\* letra_correta before any answer-key line was seen
None == "None"

\* The loop over linhas_p[1:], were letra_correta assigned only while it
\* is still None (the first answer-key line kept).
RECURSIVE ScanLinhasPrimeiroGabarito(_, _, _, _)
ScanLinhasPrimeiroGabarito(ls, textos, letras, letra_correta) ==
    IF ls = <<>> THEN
        [alternativas_textos |-> textos,
         alternativas_letras |-> letras,
         letra_correta       |-> letra_correta]
    ELSE LET l == Head(ls) IN
        IF MatchAlt(l) THEN
            ScanLinhasPrimeiroGabarito(Tail(ls), Append(textos, AltTexto(l)),
                       Append(letras, AltLetra(l)), letra_correta)
        ELSE IF MatchGabarito(l) THEN
            ScanLinhasPrimeiroGabarito(Tail(ls), textos, letras,
                IF letra_correta = None THEN GabaritoLetra(l)
                ELSE letra_correta)
        ELSE
            ScanLinhasPrimeiroGabarito(Tail(ls), textos, letras, letra_correta)

\* The loop over linhas_p[1:], were a line that matches neither pattern
\* taken as the continuation of the alternative before it.
RECURSIVE ScanLinhasContinuacao(_, _, _, _)
ScanLinhasContinuacao(ls, textos, letras, letra_correta) ==
    IF ls = <<>> THEN
        [alternativas_textos |-> textos,
         alternativas_letras |-> letras,
         letra_correta       |-> letra_correta]
    ELSE LET l == Head(ls) IN
        IF MatchAlt(l) THEN
            ScanLinhasContinuacao(Tail(ls), Append(textos, AltTexto(l)),
                       Append(letras, AltLetra(l)), letra_correta)
        ELSE IF MatchGabarito(l) THEN
            ScanLinhasContinuacao(Tail(ls), textos, letras, GabaritoLetra(l))
        ELSE IF textos # <<>> THEN
            ScanLinhasContinuacao(Tail(ls),
                [textos EXCEPT ![Len(textos)] = @ \o <<" ">> \o l],
                letras, letra_correta)
        ELSE
            ScanLinhasContinuacao(Tail(ls), textos, letras, letra_correta)

\* The loop over linhas_p[1:]: alternatives are collected in order, every
\* answer-key line overwrites letra_correta, other lines are skipped.
RECURSIVE ScanLinhas(_, _, _, _)
ScanLinhas(ls, textos, letras, letra_correta) ==
    IF ls = <<>> THEN
        [alternativas_textos |-> textos,
         alternativas_letras |-> letras,
         letra_correta       |-> letra_correta]
    ELSE LET l == Head(ls) IN
        IF MatchAlt(l) THEN
            ScanLinhas(Tail(ls), Append(textos, AltTexto(l)),
                       Append(letras, AltLetra(l)), letra_correta)
        ELSE IF MatchGabarito(l) THEN
            ScanLinhas(Tail(ls), textos, letras, GabaritoLetra(l))
        ELSE
            ScanLinhas(Tail(ls), textos, letras, letra_correta)

\* linhas_p = [l.strip() for l in bloco_p if l.strip()]
RECURSIVE LinhasP(_)
LinhasP(bloco_p) ==
    IF bloco_p = <<>> THEN <<>>
    ELSE LET s == Strip(Head(bloco_p))
         IN  IF s = <<>> THEN LinhasP(Tail(bloco_p))
             ELSE <<s>> \o LinhasP(Tail(bloco_p))

\* list.index(x) finds no occurrence (it raises ValueError)
NaoEncontrado == -1

\* list.index(x) counted from one instead of zero
RECURSIVE IndexOfBaseUm(_, _)
IndexOfBaseUm(lst, x) ==
    IF lst = <<>> THEN NaoEncontrado
    ELSE IF Head(lst) = x THEN 1
    ELSE LET r == IndexOfBaseUm(Tail(lst), x)
         IN  IF r = NaoEncontrado THEN NaoEncontrado ELSE 1 + r

\* list.index(x): zero-based position of the first occurrence
RECURSIVE IndexOf(_, _)
IndexOf(lst, x) ==
    IF lst = <<>> THEN NaoEncontrado
    ELSE IF Head(lst) = x THEN 0
    ELSE LET r == IndexOf(Tail(lst), x)
         IN  IF r = NaoEncontrado THEN NaoEncontrado ELSE 1 + r

\* the threshold of the alternatives check off by one
PoucasAlternativasMenosUm(textos) == Len(textos) < 1

\* len(alternativas_textos) < 2
PoucasAlternativas(textos) == Len(textos) < 2

\* the answer-key check left out
SemGabaritoOmitido(letra_correta) == FALSE

\* not letra_correta
SemGabarito(letra_correta) == letra_correta = None

\* the membership check left out
GabaritoSemAlternativaOmitido(letra_correta, letras) == FALSE

\* letra_correta not in alternativas_letras
GabaritoSemAlternativa(letra_correta, letras) ==
    \A j \in 1..Len(letras) : letras[j] # letra_correta

(***************************************************************************)
(* Outcomes of parse_bloco: a returned list, or the message printed before *)
(* sys.exit(1), named by the failure kind it stands for.                   *)
(***************************************************************************)

Return(perguntas) ==
    [status |-> "return", kind |-> "None", enunciado |-> <<>>,
     letra |-> "None", perguntas |-> perguntas]

\* print(...); sys.exit(1): nothing is returned to the caller
Exit(kind, enunciado, letra) ==
    [status |-> "exit", kind |-> kind, enunciado |-> enunciado,
     letra |-> letra, perguntas |-> <<>>]

\* The first pass, were the current block appended also when it is empty.
RECURSIVE ColetarBlocosSemGuarda(_, _, _)
ColetarBlocosSemGuarda(linhas, blocos, bloco_atual) ==
    IF linhas = <<>> THEN Append(blocos, bloco_atual)
    ELSE LET linha == Head(linhas)
             s     == Strip(linha)
         IN
        IF s = <<>> THEN
            ColetarBlocosSemGuarda(Tail(linhas), blocos,
                IF bloco_atual # <<>> THEN Append(bloco_atual, <<>>)
                ELSE bloco_atual)
        ELSE IF IsQuestionStart(s) THEN
            ColetarBlocosSemGuarda(Tail(linhas), Append(blocos, bloco_atual),
                IF Depois(s) # <<>> THEN <<Depois(s)>> ELSE <<>>)
        ELSE
            ColetarBlocosSemGuarda(Tail(linhas), blocos,
                                   Append(bloco_atual, linha))

\* The first pass: the loop over the lines that collects the blocks.
RECURSIVE ColetarBlocos(_, _, _)
ColetarBlocos(linhas, blocos, bloco_atual) ==
    IF linhas = <<>> THEN
        IF bloco_atual # <<>> THEN Append(blocos, bloco_atual) ELSE blocos
    ELSE LET linha == Head(linhas)
             s     == Strip(linha)
         IN
        IF s = <<>> THEN
            ColetarBlocos(Tail(linhas), blocos,
                IF bloco_atual # <<>> THEN Append(bloco_atual, <<>>)
                ELSE bloco_atual)
        ELSE IF IsQuestionStart(s) THEN
            ColetarBlocos(Tail(linhas),
                IF bloco_atual # <<>> THEN Append(blocos, bloco_atual)
                ELSE blocos,
                IF Depois(s) # <<>> THEN <<Depois(s)>> ELSE <<>>)
        ELSE
            ColetarBlocos(Tail(linhas), blocos, Append(bloco_atual, linha))

\* An uncaught exception: the program ends with a traceback.
Raise(kind, enunciado) ==
    [status |-> "raise", kind |-> kind, enunciado |-> enunciado,
     letra |-> "None", perguntas |-> <<>>]

\* The body of the second loop, were the scan started at linhas_p[0], the
\* title line included.
ValidarBlocoComTitulo(linhas_p) ==
    LET enunciado == linhas_p[1]
        scan == ScanLinhas(linhas_p, <<>>, <<>>, None)
        idx_correta == IndexOf(scan.alternativas_letras, scan.letra_correta)
    IN
    IF PoucasAlternativas(scan.alternativas_textos) THEN
        [falha |-> Exit("InsufficientChoices", enunciado, None)]
    ELSE IF SemGabarito(scan.letra_correta) THEN
        [falha |-> Exit("MissingAnswerKey", enunciado, None)]
    ELSE IF GabaritoSemAlternativa(scan.letra_correta,
                                   scan.alternativas_letras) THEN
        [falha |-> Exit("AnswerKeyMismatch", enunciado,
                        ToUpper(scan.letra_correta))]
    ELSE IF idx_correta = NaoEncontrado THEN
        [falha |-> Raise("ValueError", enunciado)]
    ELSE
        [falha |-> Return(<<>>),
         pergunta |-> [title        |-> enunciado,
                       alternativas |-> scan.alternativas_textos,
                       correta_idx  |-> idx_correta]]

\* The body of the second loop, were the answer key checked before the
\* number of alternatives.
ValidarBlocoGabaritoPrimeiro(linhas_p) ==
    LET enunciado == linhas_p[1]
        scan == ScanLinhas(Tail(linhas_p), <<>>, <<>>, None)
        idx_correta == IndexOf(scan.alternativas_letras, scan.letra_correta)
    IN
    IF SemGabarito(scan.letra_correta) THEN
        [falha |-> Exit("MissingAnswerKey", enunciado, None)]
    ELSE IF PoucasAlternativas(scan.alternativas_textos) THEN
        [falha |-> Exit("InsufficientChoices", enunciado, None)]
    ELSE IF GabaritoSemAlternativa(scan.letra_correta,
                                   scan.alternativas_letras) THEN
        [falha |-> Exit("AnswerKeyMismatch", enunciado,
                        ToUpper(scan.letra_correta))]
    ELSE IF idx_correta = NaoEncontrado THEN
        [falha |-> Raise("ValueError", enunciado)]
    ELSE
        [falha |-> Return(<<>>),
         pergunta |-> [title        |-> enunciado,
                       alternativas |-> scan.alternativas_textos,
                       correta_idx  |-> idx_correta]]

\* The body of the second loop for one block: the failure it ends the
\* program with, or the question it appends.
ValidarBloco(linhas_p) ==
    LET enunciado == linhas_p[1]
        scan == ScanLinhas(Tail(linhas_p), <<>>, <<>>, None)
        idx_correta == IndexOf(scan.alternativas_letras, scan.letra_correta)
    IN
    IF PoucasAlternativas(scan.alternativas_textos) THEN
        [falha |-> Exit("InsufficientChoices", enunciado, None)]
    ELSE IF SemGabarito(scan.letra_correta) THEN
        [falha |-> Exit("MissingAnswerKey", enunciado, None)]
    ELSE IF GabaritoSemAlternativa(scan.letra_correta,
                                   scan.alternativas_letras) THEN
        [falha |-> Exit("AnswerKeyMismatch", enunciado,
                        ToUpper(scan.letra_correta))]
    ELSE IF idx_correta = NaoEncontrado THEN
        [falha |-> Raise("ValueError", enunciado)]
    ELSE
        [falha |-> Return(<<>>),
         pergunta |-> [title        |-> enunciado,
                       alternativas |-> scan.alternativas_textos,
                       correta_idx  |-> idx_correta]]

\* The second loop, were a failing block skipped instead of ending the run.
RECURSIVE ValidarBlocosPulando(_, _)
ValidarBlocosPulando(blocos, perguntas) ==
    IF blocos = <<>> THEN
        IF perguntas = <<>> THEN Exit("NoValidQuestions", <<>>, None)
        ELSE Return(perguntas)
    ELSE LET linhas_p == LinhasP(Head(blocos)) IN
        IF linhas_p = <<>> THEN ValidarBlocosPulando(Tail(blocos), perguntas)
        ELSE LET r == ValidarBloco(linhas_p) IN
            IF r.falha.status # "return" THEN
                ValidarBlocosPulando(Tail(blocos), perguntas)
            ELSE ValidarBlocosPulando(Tail(blocos),
                                      Append(perguntas, r.pergunta))

\* The second pass: the loop over the blocks that validates each one and
\* builds the questions; the first violation terminates the program.
RECURSIVE ValidarBlocos(_, _)
ValidarBlocos(blocos, perguntas) ==
    IF blocos = <<>> THEN
        IF perguntas = <<>> THEN Exit("NoValidQuestions", <<>>, None)
        ELSE Return(perguntas)
    ELSE LET linhas_p == LinhasP(Head(blocos)) IN
        IF linhas_p = <<>> THEN ValidarBlocos(Tail(blocos), perguntas)
        ELSE LET r == ValidarBloco(linhas_p) IN
            IF r.falha.status # "return" THEN r.falha
            ELSE ValidarBlocos(Tail(blocos), Append(perguntas, r.pergunta))

\* bloco.strip("\n") leaves the empty string
TextoVazio(bloco) == \A i \in 1..Len(bloco) : bloco[i] = <<>>

\* bloco.strip("\n").splitlines(): the lines without the leading and the
\* trailing empty ones
RECURSIVE StripNewlines(_)
StripNewlines(bloco) ==
    IF bloco = <<>> THEN <<>>
    ELSE IF Head(bloco) = <<>> THEN StripNewlines(Tail(bloco))
    ELSE IF bloco[Len(bloco)] = <<>> THEN
        StripNewlines(SubSeq(bloco, 1, Len(bloco) - 1))
    ELSE bloco

parse_bloco(bloco) ==
    IF TextoVazio(bloco) THEN Exit("EmptyInput", <<>>, None)
    ELSE LET blocos == ColetarBlocos(StripNewlines(bloco), <<>>, <<>>) IN
        IF blocos = <<>> THEN Exit("NoQuestionBlocks", <<>>, None)
        ELSE ValidarBlocos(blocos, <<>>)

(***************************************************************************)
(* parse_bloco of classroom_criar_atividade_com_teste_V3.py, translated    *)
(* from its own text.  The string methods and the regular expressions are  *)
(* those of the V5 copy.                                                   *)
(***************************************************************************)

\* V3, the first loop and the append after it
RECURSIVE ColetarBlocosV3(_, _, _)
ColetarBlocosV3(linhas, blocos, bloco_atual) ==
    IF linhas = <<>> THEN
        IF bloco_atual # <<>> THEN Append(blocos, bloco_atual) ELSE blocos
    ELSE LET linha == Head(linhas)
             s     == Strip(linha)
         IN
        IF s = <<>> THEN
            ColetarBlocosV3(Tail(linhas), blocos,
                IF bloco_atual # <<>> THEN Append(bloco_atual, <<>>)
                ELSE bloco_atual)
        ELSE IF IsQuestionStart(s) THEN
            ColetarBlocosV3(Tail(linhas),
                IF bloco_atual # <<>> THEN Append(blocos, bloco_atual)
                ELSE blocos,
                IF Depois(s) # <<>> THEN <<Depois(s)>> ELSE <<>>)
        ELSE
            ColetarBlocosV3(Tail(linhas), blocos, Append(bloco_atual, linha))

\* V3, for l in linhas_p[1:]
RECURSIVE ScanLinhasV3(_, _, _, _)
ScanLinhasV3(ls, textos, letras, letra_correta) ==
    IF ls = <<>> THEN
        [alternativas_textos |-> textos,
         alternativas_letras |-> letras,
         letra_correta       |-> letra_correta]
    ELSE LET l == Head(ls) IN
        IF MatchAlt(l) THEN
            ScanLinhasV3(Tail(ls), Append(textos, AltTexto(l)),
                         Append(letras, AltLetra(l)), letra_correta)
        ELSE IF MatchGabarito(l) THEN
            ScanLinhasV3(Tail(ls), textos, letras, GabaritoLetra(l))
        ELSE
            ScanLinhasV3(Tail(ls), textos, letras, letra_correta)

\* V3, the body of the second loop for one block
ValidarBlocoV3(linhas_p) ==
    LET enunciado == linhas_p[1]
        scan == ScanLinhasV3(Tail(linhas_p), <<>>, <<>>, None)
        idx_correta == IndexOf(scan.alternativas_letras, scan.letra_correta)
    IN
    IF Len(scan.alternativas_textos) < 2 THEN
        [falha |-> Exit("InsufficientChoices", enunciado, None)]
    ELSE IF scan.letra_correta = None THEN
        [falha |-> Exit("MissingAnswerKey", enunciado, None)]
    ELSE IF \A j \in 1..Len(scan.alternativas_letras) :
                scan.alternativas_letras[j] # scan.letra_correta THEN
        [falha |-> Exit("AnswerKeyMismatch", enunciado,
                        ToUpper(scan.letra_correta))]
    ELSE
        [falha |-> Return(<<>>),
         pergunta |-> [title        |-> enunciado,
                       alternativas |-> scan.alternativas_textos,
                       correta_idx  |-> idx_correta]]

\* V3, the second loop and the check after it
RECURSIVE ValidarBlocosV3(_, _)
ValidarBlocosV3(blocos, perguntas) ==
    IF blocos = <<>> THEN
        IF perguntas = <<>> THEN Exit("NoValidQuestions", <<>>, None)
        ELSE Return(perguntas)
    ELSE LET linhas_p == LinhasP(Head(blocos)) IN
        IF linhas_p = <<>> THEN ValidarBlocosV3(Tail(blocos), perguntas)
        ELSE LET r == ValidarBlocoV3(linhas_p) IN
            IF r.falha.status # "return" THEN r.falha
            ELSE ValidarBlocosV3(Tail(blocos), Append(perguntas, r.pergunta))

parse_bloco_V3(bloco) ==
    IF TextoVazio(bloco) THEN Exit("EmptyInput", <<>>, None)
    ELSE LET blocos == ColetarBlocosV3(StripNewlines(bloco), <<>>, <<>>) IN
        IF blocos = <<>> THEN Exit("NoQuestionBlocks", <<>>, None)
        ELSE ValidarBlocosV3(blocos, <<>>)

(***************************************************************************)
(* The text the operator pastes.  Each chunk is a run of consecutive lines *)
(* read by the input() loop of main.                                       *)
(***************************************************************************)

LinhaVazia   == <<>>
LinhaBranca  == <<" ", "\t">>
LinhaP1      == <<"P", "1", ":", " ", "Q">>
LinhaPSemTit == <<"p", ":">>
LinhaAltA    == <<"A", ")", " ", "x">>
LinhaAltB    == <<"b", ")", "y">>
LinhaGabB    == <<"G", ":", " ", "B">>
LinhaGabA    == <<"g", ":", "A">>
LinhaGabS    == <<"G", ":", " ", "S">>
LinhaNota    == <<"n", "o", "t", "a">>
LinhaAltLong == <<LongS, ")", " ", "z">>
LinhaP2      == <<"P", "2", ":", " ", "R">>
LinhaAltC    == <<"C", ")", " ", "u">>
LinhaAltA2   == <<"a", ")", " ", "v">>
LinhaGabTxt  == <<"G", ":", " ", "A", " ", "(", "v", ")">>

Chunks ==
    { <<LinhaVazia>>, <<LinhaBranca>>, <<LinhaP1>>, <<LinhaPSemTit>>,
      <<LinhaAltA>>, <<LinhaAltB>>, <<LinhaGabB>>, <<LinhaGabA>>,
      <<LinhaGabS>>, <<LinhaNota>>, <<LinhaAltLong>>,
      <<LinhaAltA, LinhaAltB>>,
      <<LinhaP1, LinhaAltA>>,
      <<LinhaP1, LinhaAltA, LinhaAltB>>,
      <<LinhaP1, LinhaAltA, LinhaAltB, LinhaGabB>>,
      <<LinhaP2, LinhaAltC, LinhaAltA2, LinhaGabTxt>>,
      <<LinhaPSemTit, LinhaAltA>>,
      <<LinhaP1, LinhaAltA, LinhaGabA>>,
      <<LinhaP1, LinhaAltA, LinhaAltB, LinhaGabS>>,
      <<LinhaAltLong, LinhaGabS>>,
      <<LinhaNota, LinhaGabB>>,
      <<LinhaAltA, LinhaAltB, LinhaGabB>> }

(***************************************************************************)
(* main: the reading loop, then parse_bloco.                               *)
(***************************************************************************)

VARIABLES
    linhas_bloco,   \* main: the lines read so far
    colagens,       \* number of chunks pasted so far
    pc,             \* "lendo" | "parsed" | "exited" | "forms" | "feito" | "erro"
    resultado,      \* outcome of parse_bloco, once called
    stdout,         \* what the run has printed for the operator
    chamadas,       \* the remote calls issued so far, in order
    \* gerenciar_cursos_classroom.py
    course_state,   \* the service: courseState of each course ("DELETED": gone)
    course_idx,     \* run_manager: position in courses_to_remove
    etapa,          \* run_manager: "archive" | "delete" | "delete_call" | "fim"
    remotas,        \* the remote calls run_manager has issued, in order
    arquivado,      \* what archive_course returned for each course
    excluido,       \* what delete_archived_course returned for each course
    fetched,        \* the state delete_archived_course fetched for each course
    externos,       \* changes made by other users of the service so far
    \* word_to_pptx_treinamento.py
    titulo_padrao,  \* the default title given by the caller (<<>>: None)
    placeholders,   \* the slide layout provides the title and body placeholders
    lidos,          \* paragraphs of the document read so far
    paragrafo,      \* the paragraph read last
    slides,         \* pres.slides: title and bullets of each slide
    current_slide,  \* current_slide is not None
    body_shape,     \* body_shape is not None
    bullet_count,   \* bullets counted on the current slide
    titulo_modulo,  \* title of the current module (<<>>: None)
    numeros,        \* the "n / total" boxes add_slide_numbers has added
    salvo,          \* pres.save has run
    \* limpar_tudo_classroom.py
    confirm,        \* main: the operator's confirmation input, as typed
    fase_limpeza,   \* main: "confirmar" | "materiais" | "tarefas" |
                    \* "cancelado" | "concluido"
    n_turmas,       \* number of courses listar_cursos returned
    turma_idx,      \* main: position in course_ids
    deletes,        \* the remote delete calls issued so far
    \* sincronizar_notas_forms_por_links.py
    mapa_email_para_user, \* the students mapped by e-mail
    total_works,    \* number of courseworks listar_courseworks returned
    cw_idx,         \* main: courseworks taken from works so far
    fase_notas,     \* main: "inicio" | "proxima" | "planilha" | "submissoes" |
                    \* "aplicar" | "saiu" | "concluido"
    cw,             \* the coursework the loop is at
    notas_forms,    \* the scores read from the spreadsheet for it
    mapa_user_para_sub,   \* the students with a submission for it
    patches         \* the grade updates issued for it

varsQuiz == <<linhas_bloco, colagens, pc, resultado, stdout, chamadas>>

varsCursos == <<course_state, course_idx, etapa, remotas, arquivado,
                excluido, fetched, externos>>

varsSlides == <<titulo_padrao, placeholders, lidos, paragrafo, slides,
                current_slide, body_shape, bullet_count, titulo_modulo,
                numeros, salvo>>

varsLimpeza == <<confirm, fase_limpeza, n_turmas, turma_idx, deletes>>

varsNotas == <<mapa_email_para_user, total_works, cw_idx, fase_notas, cw,
               notas_forms, mapa_user_para_sub, patches>>

vars == <<varsQuiz, varsCursos, varsSlides, varsLimpeza, varsNotas>>

SemResultado == [status |-> "none", kind |-> "None", enunciado |-> <<>>,
                 letra |-> "None", perguntas |-> <<>>]

\* the print(...) calls of parse_bloco: one message before each sys.exit(1),
\* none on the way to return
Impresso(r) == IF r.status = "exit" THEN <<r.kind>> ELSE <<>>

\* the quiz program before its first input line
QuizInicial ==
    /\ linhas_bloco = <<>>
    /\ colagens = 0
    /\ pc = "lendo"
    /\ resultado = SemResultado
    /\ stdout = <<>>
    /\ chamadas = <<>>

\* the course manager not running
CursosFora ==
    /\ course_state = <<>>
    /\ course_idx = 0
    /\ etapa = "fora"
    /\ remotas = <<>>
    /\ arquivado = <<>>
    /\ excluido = <<>>
    /\ fetched = <<>>
    /\ externos = 0

\* the converter not running
SlidesFora ==
    /\ titulo_padrao = <<>>
    /\ placeholders = FALSE
    /\ lidos = 0
    /\ paragrafo = [style |-> <<>>, text |-> <<>>]
    /\ slides = <<>>
    /\ current_slide = FALSE
    /\ body_shape = FALSE
    /\ bullet_count = 0
    /\ titulo_modulo = <<>>
    /\ numeros = <<>>
    /\ salvo = FALSE

\* the clean-up program not running
LimpezaFora ==
    /\ confirm = <<>>
    /\ fase_limpeza = "fora"
    /\ n_turmas = 0
    /\ turma_idx = 0
    /\ deletes = {}

\* a coursework record before any is taken
SemTarefa == [forms_link |-> FALSE, maxPoints |-> -1]

\* the grade synchroniser not running
NotasFora ==
    /\ mapa_email_para_user = {}
    /\ total_works = 0
    /\ cw_idx = 0
    /\ fase_notas = "fora"
    /\ cw = SemTarefa
    /\ notas_forms = <<>>
    /\ mapa_user_para_sub = {}
    /\ patches = {}

Init ==
    /\ QuizInicial
    /\ CursosFora
    /\ SlidesFora
    /\ LimpezaFora
    /\ NotasFora

\* linha = input(); linhas_bloco.append(linha), for each line of the chunk
Colar(chunk) ==
    /\ pc = "lendo"
    /\ colagens < MaxChunks
    /\ linhas_bloco' = linhas_bloco \o chunk
    /\ colagens' = colagens + 1
    /\ UNCHANGED <<pc, resultado, stdout, chamadas>>
    /\ UNCHANGED <<varsCursos, varsSlides, varsLimpeza, varsNotas>>

\* where main stands after the call, were a failure of parse_bloco to
\* return to main instead of ending the program
AposParseSemSair(r) ==
    "parsed"

\* where main stands after the call: parse_bloco ends the program with
\* sys.exit(1) on every failure, main goes on only with the returned list
AposParse(r) ==
    IF r.status = "return" THEN "parsed" ELSE "exited"

\* the sentinel line "fim" (or end of input): bloco = "\n".join(linhas_bloco);
\* questoes = parse_bloco(bloco)
Fim ==
    /\ pc = "lendo"
    /\ resultado' = parse_bloco(linhas_bloco)
    /\ stdout' = Impresso(resultado')
    /\ pc' = AposParse(resultado')
    /\ UNCHANGED <<linhas_bloco, colagens, chamadas>>
    /\ UNCHANGED <<varsCursos, varsSlides, varsLimpeza, varsNotas>>

\* one remote call: the API method and, for a batch update, its requests
Chamada(api, requests) == [api |-> api, requests |-> requests]

\* the first request of the batch: turn the form into a quiz collecting
\* the respondent's e-mail
UpdateSettings ==
    [tipo |-> "updateSettings", title |-> <<>>, options |-> <<>>,
     correctAnswers |-> <<>>, index |-> -1]

\* the item, were the first choice always taken as the correct answer
CreateItemPrimeiraCorreta(i, q) ==
    [tipo |-> "createItem", title |-> q.title, options |-> q.alternativas,
     correctAnswers |-> <<q.alternativas[1]>>, index |-> i]

\* the createItem request of the question enumerate() numbers i (from 0):
\* correta = alternativas[q["correta_idx"]]
CreateItem(i, q) ==
    [tipo |-> "createItem", title |-> q.title, options |-> q.alternativas,
     correctAnswers |-> <<q.alternativas[q.correta_idx + 1]>>, index |-> i]

\* requests = [updateSettings]; for i, q in enumerate(questoes): append
Requests(questoes) ==
    <<UpdateSettings>> \o
    [n \in 1..Len(questoes) |-> CreateItem(n - 1, questoes[n])]

\* the remote calls whose HttpError may end criar_quiz_forms ("nenhum":
\* every call succeeds; a failed permission grant is caught and reported)
ErrosForms == {"nenhum", "create", "permissions", "batchUpdate", "get"}

\* form_id, link = criar_quiz_forms(...): forms.create, the Drive permission
\* grant (the V5 program only; com_drive is FALSE for the V3 program),
\* forms.batchUpdate with the requests, forms.get
CriarQuizForms(com_drive, erro) ==
    /\ pc = "parsed"
    /\ erro = "permissions" => com_drive
    /\ LET create == <<Chamada("forms.create", <<>>)>>
           perm   == IF com_drive
                     THEN <<Chamada("drive.permissions.create", <<>>)>>
                     ELSE <<>>
           batch  == <<Chamada("forms.batchUpdate",
                               Requests(resultado.perguntas))>>
           get    == <<Chamada("forms.get", <<>>)>>
           aviso  == IF ~com_drive THEN <<>>
                     ELSE IF erro = "permissions"
                          THEN <<"PermissaoNaoDefinida">>
                          ELSE <<"PermissaoDefinida">>
       IN  /\ chamadas' = chamadas \o
                 (CASE erro = "create"      -> create
                    [] erro = "batchUpdate" -> create \o perm \o batch
                    [] OTHER -> create \o perm \o batch \o get)
           /\ stdout' = stdout \o
                 (CASE erro = "create" -> <<>>
                    [] erro \in {"batchUpdate", "get"} -> aviso
                    [] OTHER -> aviso \o <<"FormCriado">>)
    /\ pc' = IF erro \in {"nenhum", "permissions"} THEN "forms" ELSE "erro"
    /\ UNCHANGED <<linhas_bloco, colagens, resultado>>
    /\ UNCHANGED <<varsCursos, varsSlides, varsLimpeza, varsNotas>>

\* coursework_id = criar_atividade_classroom(...): courseWork.create with
\* the form's link as material
CriarAtividadeClassroom(falhou) ==
    /\ pc = "forms"
    /\ chamadas' = Append(chamadas, Chamada("courseWork.create", <<>>))
    /\ stdout' = IF falhou THEN stdout ELSE Append(stdout, "TarefaCriada")
    /\ pc' = IF falhou THEN "erro" ELSE "feito"
    /\ UNCHANGED <<linhas_bloco, colagens, resultado>>
    /\ UNCHANGED <<varsCursos, varsSlides, varsLimpeza, varsNotas>>

Next ==
    \/ \E chunk \in Chunks : Colar(chunk)
    \/ Fim
    \/ \E com_drive \in BOOLEAN, erro \in ErrosForms :
          CriarQuizForms(com_drive, erro)
    \/ \E falhou \in BOOLEAN : CriarAtividadeClassroom(falhou)

Spec == Init /\ [][Next]_vars

TypeOK ==
    /\ pc \in {"lendo", "parsed", "exited", "forms", "feito", "erro"}
    /\ colagens \in 0..MaxChunks
    /\ resultado.status \in {"none", "return", "exit", "raise"}

(***************************************************************************)
(* gerenciar_cursos_classroom.py: run_manager archives, then deletes, each *)
(* course of courses_to_remove.                                            *)
(***************************************************************************)

\* length of courses_to_remove (five ids in the source)
MaxCursos == 2

\* number of state changes other users of the service may make during a run
MaxExternos == 1

courses_to_remove == [n \in 1..MaxCursos |-> n]

\* courseState values of the service, and "DELETED" for a course that is gone
Estados == {"ACTIVE", "ARCHIVED", "PROVISIONED", "DECLINED", "DELETED"}

\* a Python bool, or None before the call
PyTrue == "True"
PyFalse == "False"

Remota(metodo, id, estado) == [metodo |-> metodo, id |-> id, estado |-> estado]

\* the course the loop of run_manager is at
Atual == courses_to_remove[course_idx]

\* end of the loop body: next course, or the end of run_manager
Avancar ==
    IF course_idx = MaxCursos
    THEN /\ etapa' = "fim"
         /\ course_idx' = course_idx
    ELSE /\ etapa' = "archive"
         /\ course_idx' = course_idx + 1

\* the outcomes of archive_course's remote calls: both succeed, the get
\* raises, the update raises and changes nothing, the update raises after
\* the service applied it
FalhasArchive == {"nenhuma", "get", "update", "update_aplicado"}

\* archive_course(service, course_id)
archive_course(falha) ==
    /\ etapa = "archive"
    /\ LET c == Atual IN
       IF falha = "get" \/ course_state[c] = "DELETED" THEN
           /\ remotas' = Append(remotas, Remota("get", c, "HttpError"))
           /\ arquivado' = [arquivado EXCEPT ![c] = PyFalse]
           /\ UNCHANGED course_state
       ELSE IF course_state[c] = "ARCHIVED" THEN
           /\ remotas' = Append(remotas, Remota("get", c, course_state[c]))
           /\ arquivado' = [arquivado EXCEPT ![c] = PyTrue]
           /\ UNCHANGED course_state
       ELSE
           /\ remotas' = remotas \o <<Remota("get", c, course_state[c]),
                                      Remota("update", c, "ARCHIVED")>>
           /\ arquivado' = [arquivado EXCEPT ![c] =
                               IF falha = "nenhuma" THEN PyTrue ELSE PyFalse]
           /\ course_state' = IF falha = "update" THEN course_state
                              ELSE [course_state EXCEPT ![c] = "ARCHIVED"]
    /\ etapa' = "delete"
    /\ UNCHANGED <<course_idx, excluido, fetched, externos>>
    /\ UNCHANGED <<varsQuiz, varsSlides, varsLimpeza, varsNotas>>

\* delete_archived_course without its check of the fetched state
delete_archived_course_get_sem_verificar(falha) ==
    /\ etapa = "delete"
    /\ LET c == Atual IN
       IF falha \/ course_state[c] = "DELETED" THEN
           /\ remotas' = Append(remotas, Remota("get", c, "HttpError"))
           /\ fetched' = [fetched EXCEPT ![c] = "HttpError"]
           /\ excluido' = [excluido EXCEPT ![c] = PyFalse]
           /\ Avancar
       ELSE
           /\ remotas' = Append(remotas, Remota("get", c, course_state[c]))
           /\ fetched' = [fetched EXCEPT ![c] = course_state[c]]
           /\ etapa' = "delete_call"
           /\ UNCHANGED <<course_idx, excluido>>
    /\ UNCHANGED <<course_state, arquivado, externos>>
    /\ UNCHANGED <<varsQuiz, varsSlides, varsLimpeza, varsNotas>>

\* delete_archived_course(service, course_id), up to its delete call:
\* course = get(id); if courseState != "ARCHIVED": return False
delete_archived_course_get(falha) ==
    /\ etapa = "delete"
    /\ LET c == Atual IN
       IF falha \/ course_state[c] = "DELETED" THEN
           /\ remotas' = Append(remotas, Remota("get", c, "HttpError"))
           /\ fetched' = [fetched EXCEPT ![c] = "HttpError"]
           /\ excluido' = [excluido EXCEPT ![c] = PyFalse]
           /\ Avancar
       ELSE IF course_state[c] # "ARCHIVED" THEN
           /\ remotas' = Append(remotas, Remota("get", c, course_state[c]))
           /\ fetched' = [fetched EXCEPT ![c] = course_state[c]]
           /\ excluido' = [excluido EXCEPT ![c] = PyFalse]
           /\ Avancar
       ELSE
           /\ remotas' = Append(remotas, Remota("get", c, course_state[c]))
           /\ fetched' = [fetched EXCEPT ![c] = course_state[c]]
           /\ etapa' = "delete_call"
           /\ UNCHANGED <<course_idx, excluido>>
    /\ UNCHANGED <<course_state, arquivado, externos>>
    /\ UNCHANGED <<varsQuiz, varsSlides, varsLimpeza, varsNotas>>

\* delete_archived_course, its delete call: the service removes a course
\* only while it is archived and answers with an error otherwise
delete_archived_course_delete(falha) ==
    /\ etapa = "delete_call"
    /\ LET c == Atual IN
       /\ remotas' = Append(remotas, Remota("delete", c, course_state[c]))
       /\ IF falha \/ course_state[c] # "ARCHIVED" THEN
              /\ excluido' = [excluido EXCEPT ![c] = PyFalse]
              /\ UNCHANGED course_state
          ELSE
              /\ excluido' = [excluido EXCEPT ![c] = PyTrue]
              /\ course_state' = [course_state EXCEPT ![c] = "DELETED"]
    /\ Avancar
    /\ UNCHANGED <<arquivado, fetched, externos>>
    /\ UNCHANGED <<varsQuiz, varsSlides, varsLimpeza, varsNotas>>

\* another user of the service archives or restores a course
Externo(c, e) ==
    /\ etapa \in {"archive", "delete", "delete_call"}
    /\ externos < MaxExternos
    /\ course_state[c] \in {"ACTIVE", "ARCHIVED"}
    /\ e # course_state[c]
    /\ course_state' = [course_state EXCEPT ![c] = e]
    /\ externos' = externos + 1
    /\ UNCHANGED <<course_idx, etapa, remotas, arquivado, excluido, fetched>>
    /\ UNCHANGED <<varsQuiz, varsSlides, varsLimpeza, varsNotas>>

\* run_manager at the start of its loop, over any state of the courses
InitCursos ==
    /\ QuizInicial
    /\ SlidesFora
    /\ LimpezaFora
    /\ NotasFora
    /\ course_state \in [1..MaxCursos -> Estados]
    /\ course_idx = 1
    /\ etapa = "archive"
    /\ remotas = <<>>
    /\ arquivado = [c \in 1..MaxCursos |-> None]
    /\ excluido = [c \in 1..MaxCursos |-> None]
    /\ fetched = [c \in 1..MaxCursos |-> None]
    /\ externos = 0

NextCursos ==
    \/ \E falha \in FalhasArchive : archive_course(falha)
    \/ \E falha \in BOOLEAN : delete_archived_course_get(falha)
    \/ \E falha \in BOOLEAN : delete_archived_course_delete(falha)
    \/ \E c \in 1..MaxCursos, e \in {"ACTIVE", "ARCHIVED"} : Externo(c, e)

SpecCursos == InitCursos /\ [][NextCursos]_vars

(***************************************************************************)
(* word_to_pptx_treinamento.py: create_presentation_from_docx turns the    *)
(* paragraphs of a document into slides.                                   *)
(***************************************************************************)

\* number of paragraphs of the document
MaxParagrafos == 3

\* length of a run of paragraphs that share style and text
Seguidos == 14

MAX_BULLETS == 15

\* paragraph style names
Heading1 == <<"H", "e", "a", "d", "i", "n", "g", " ", "1">>
Titulo1 == <<"T", "í", "t", "u", "l", "o", " ", "1">>
Heading2 == <<"H", "e", "a", "d", "i", "n", "g", " ", "2">>
Titulo2 == <<"T", "í", "t", "u", "l", "o", " ", "2">>
Heading3 == <<"H", "e", "a", "d", "i", "n", "g", " ", "3">>
Normal == <<"N", "o", "r", "m", "a", "l">>

Estilos == {Heading1, Titulo1, Heading2, Titulo2, Heading3, Normal, <<>>}

\* paragraph texts, before para.text.strip()
Textos == {<<>>, <<" ">>, <<"a">>, <<" ", "b">>}

\* s.startswith(pre)
StartsWith(s, pre) ==
    Len(s) >= Len(pre) /\ SubSeq(s, 1, Len(pre)) = pre

EhHeading1(style_name) ==
    StartsWith(style_name, Heading1) \/ StartsWith(style_name, Titulo1)

EhHeading2(style_name) ==
    StartsWith(style_name, Heading2) \/ StartsWith(style_name, Titulo2)

\* titulo_padrao or docx_path.stem.replace("_", " ").title(), for a
\* document named meu_doc.docx
TituloInicial ==
    IF titulo_padrao # <<>> THEN titulo_padrao ELSE <<"Meu Doc">>

\* (titulo_modulo or titulo_padrao or docx_path.stem) + " (continuação)"
TituloCont(modulo) ==
    (IF modulo # <<>> THEN modulo
     ELSE IF titulo_padrao # <<>> THEN titulo_padrao
     ELSE <<"meu_doc">>) \o <<" (continuação)">>

\* _novo_slide_conteudo: a slide with the title set (when the layout has
\* the title placeholder) and an empty body
NovoSlide(sl, titulo) ==
    Append(sl, [titulo |-> IF placeholders THEN titulo ELSE <<>>,
                bullets |-> <<>>])

\* add_bullet_to_body on the body of the last slide
AddBullet(sl, text, is_highlight) ==
    [sl EXCEPT ![Len(sl)].bullets =
        Append(@, [texto |-> text, destaque |-> is_highlight])]

\* the local state of the loop of create_presentation_from_docx
Local(sl, cur, body, count, modulo) ==
    [slides |-> sl, current_slide |-> cur, body_shape |-> body,
     bullet_count |-> count, titulo_modulo |-> modulo]

\* "Cria slide inicial se ainda não existir"
SlideInicial(e) ==
    IF e.current_slide THEN e
    ELSE Local(NovoSlide(e.slides, TituloInicial), TRUE, placeholders,
               e.bullet_count, TituloInicial)

\* "Heading 1 => novo módulo (novo slide principal)"
NovoModulo(e, style_name, text) ==
    IF EhHeading1(style_name)
    THEN Local(NovoSlide(e.slides, text), TRUE, placeholders, 0, text)
    ELSE e

\* the break, were it made only past MAX_BULLETS
ContinuacaoTardia(e) ==
    IF e.bullet_count > MAX_BULLETS
    THEN Local(NovoSlide(e.slides, TituloCont(e.titulo_modulo)), TRUE,
               placeholders, 0, e.titulo_modulo)
    ELSE e

\* "Quebra em continuação se MAX_BULLETS atingido"
Continuacao(e) ==
    IF e.bullet_count >= MAX_BULLETS
    THEN Local(NovoSlide(e.slides, TituloCont(e.titulo_modulo)), TRUE,
               placeholders, 0, e.titulo_modulo)
    ELSE e

\* the if body_shape: block, both of its branches: a highlighted bullet
\* for a Heading 2 style, a plain bullet for every other style
Bullet(e, style_name, text) ==
    IF ~e.body_shape THEN e
    ELSE LET c == Continuacao(e) IN
         IF ~c.body_shape THEN c
         ELSE Local(AddBullet(c.slides, text, EhHeading2(style_name)),
                    c.current_slide, c.body_shape, c.bullet_count + 1,
                    c.titulo_modulo)

\* one iteration of for para in document.paragraphs
Iteracao(e, style_name, bruto) ==
    LET text == Strip(bruto) IN
    IF text = <<>> THEN e
    ELSE LET i == SlideInicial(e) IN
         IF ~e.current_slide /\ ~i.body_shape THEN i
         ELSE Bullet(NovoModulo(i, style_name, text), style_name, text)

\* the loop reads the next paragraph of the document
Paragrafo(style_name, bruto) ==
    /\ ~salvo
    /\ lidos < MaxParagrafos
    /\ lidos' = lidos + 1
    /\ paragrafo' = [style |-> style_name, text |-> bruto]
    /\ LET e == Iteracao(Local(slides, current_slide, body_shape,
                               bullet_count, titulo_modulo),
                         style_name, bruto)
       IN  /\ slides' = e.slides
           /\ current_slide' = e.current_slide
           /\ body_shape' = e.body_shape
           /\ bullet_count' = e.bullet_count
           /\ titulo_modulo' = e.titulo_modulo
    /\ UNCHANGED <<titulo_padrao, placeholders, numeros, salvo>>
    /\ UNCHANGED <<varsQuiz, varsCursos, varsLimpeza, varsNotas>>

\* n iterations of the loop over paragraphs of the same style and text
RECURSIVE Iteracoes(_, _, _, _)
Iteracoes(e, style_name, bruto, n) ==
    IF n = 0 THEN e
    ELSE Iteracoes(Iteracao(e, style_name, bruto), style_name, bruto, n - 1)

\* the loop reads a run of Seguidos paragraphs of the same style and text
ParagrafosSeguidos(style_name, bruto) ==
    /\ ~salvo
    /\ lidos < MaxParagrafos
    /\ lidos' = lidos + Seguidos
    /\ paragrafo' = [style |-> style_name, text |-> bruto]
    /\ LET e == Iteracoes(Local(slides, current_slide, body_shape,
                                bullet_count, titulo_modulo),
                          style_name, bruto, Seguidos)
       IN  /\ slides' = e.slides
           /\ current_slide' = e.current_slide
           /\ body_shape' = e.body_shape
           /\ bullet_count' = e.bullet_count
           /\ titulo_modulo' = e.titulo_modulo
    /\ UNCHANGED <<titulo_padrao, placeholders, numeros, salvo>>
    /\ UNCHANGED <<varsQuiz, varsCursos, varsLimpeza, varsNotas>>

\* after the loop: a slide for an empty document, add_slide_numbers,
\* pres.save
Salvar ==
    /\ ~salvo
    /\ LET sl == IF Len(slides) = 0 THEN NovoSlide(slides, TituloInicial)
                 ELSE slides
       IN  /\ slides' = sl
           /\ numeros' = [n \in 1..Len(sl) |-> <<n, Len(sl)>>]
    /\ salvo' = TRUE
    /\ UNCHANGED <<titulo_padrao, placeholders, lidos, paragrafo,
                   current_slide, body_shape, bullet_count, titulo_modulo>>
    /\ UNCHANGED <<varsQuiz, varsCursos, varsLimpeza, varsNotas>>

\* create_presentation_from_docx before its loop
InitSlides ==
    /\ QuizInicial
    /\ CursosFora
    /\ LimpezaFora
    /\ NotasFora
    /\ titulo_padrao \in {<<>>, <<"T">>}
    /\ placeholders \in BOOLEAN
    /\ lidos = 0
    /\ paragrafo = [style |-> <<>>, text |-> <<>>]
    /\ slides = <<>>
    /\ current_slide = FALSE
    /\ body_shape = FALSE
    /\ bullet_count = 0
    /\ titulo_modulo = <<>>
    /\ numeros = <<>>
    /\ salvo = FALSE

NextSlides ==
    \/ \E style_name \in Estilos, bruto \in Textos :
          Paragrafo(style_name, bruto)
    \/ \E style_name \in Estilos, bruto \in Textos :
          ParagrafosSeguidos(style_name, bruto)
    \/ Salvar

SpecSlides == InitSlides /\ [][NextSlides]_vars

(***************************************************************************)
(* limpar_tudo_classroom.py: main asks for a confirmation, then deletes    *)
(* the materials and the courseworks of every course listed.               *)
(***************************************************************************)

\* number of courses listar_cursos may return
MaxTurmas == 2

\* ids of the materials, and of the courseworks, a course may hold
Itens == {1, 2}

\* the word the operator has to type
APAGAR_TUDO == <<"A", "P", "A", "G", "A", "R", "_", "T", "U", "D", "O">>

\* what the operator may type at the prompt
Confirmacoes ==
    { APAGAR_TUDO,
      <<" ">> \o APAGAR_TUDO \o <<"\t">>,
      [n \in 1..Len(APAGAR_TUDO) |-> ToLower(APAGAR_TUDO[n])],
      APAGAR_TUDO \o <<"!">>,
      SubSeq(APAGAR_TUDO, 1, 6),
      <<"s">>, <<" ">>, <<>> }

\* the comparison of the prompt, were letter case ignored
ConfirmadoSemCaixa(texto) ==
    [n \in 1..Len(Strip(texto)) |-> ToUpper(Strip(texto)[n])] = APAGAR_TUDO

\* confirm = input(...).strip(); confirm != "APAGAR_TUDO" is false
Confirmado(texto) ==
    Strip(texto) = APAGAR_TUDO

\* start of the loop over course_ids, or its end
ProximaTurma(idx) ==
    IF idx < n_turmas
    THEN /\ fase_limpeza' = "materiais"
         /\ turma_idx' = idx + 1
    ELSE /\ fase_limpeza' = "concluido"
         /\ turma_idx' = idx

\* the prompt of main and the return that follows a wrong answer
Confirmar(texto) ==
    /\ fase_limpeza = "confirmar"
    /\ confirm' = texto
    /\ IF Confirmado(texto) THEN ProximaTurma(0)
       ELSE /\ fase_limpeza' = "cancelado"
            /\ UNCHANGED turma_idx
    /\ UNCHANGED <<n_turmas, deletes>>
    /\ UNCHANGED <<varsQuiz, varsCursos, varsSlides, varsNotas>>

\* the delete calls of one pass over the items listed
Delecoes(tipo, listados) ==
    {[tipo |-> tipo, turma |-> turma_idx, id |-> i] : i \in listados}

\* deletar_materiais(service, cid): a delete for every material on the
\* pages listed (a list call may fail, which ends the pass)
deletar_materiais(listados) ==
    /\ fase_limpeza = "materiais"
    /\ deletes' = deletes \cup Delecoes("courseWorkMaterials", listados)
    /\ fase_limpeza' = "tarefas"
    /\ UNCHANGED <<confirm, n_turmas, turma_idx>>
    /\ UNCHANGED <<varsQuiz, varsCursos, varsSlides, varsNotas>>

\* deletar_coursework(service, cid): a delete for every coursework on the
\* pages listed
deletar_coursework(listados) ==
    /\ fase_limpeza = "tarefas"
    /\ deletes' = deletes \cup Delecoes("courseWork", listados)
    /\ ProximaTurma(turma_idx)
    /\ UNCHANGED <<confirm, n_turmas>>
    /\ UNCHANGED <<varsQuiz, varsCursos, varsSlides, varsNotas>>

\* main at its prompt, the courses listed
InitLimpeza ==
    /\ QuizInicial
    /\ CursosFora
    /\ SlidesFora
    /\ NotasFora
    /\ confirm = <<>>
    /\ fase_limpeza = "confirmar"
    /\ n_turmas \in 0..MaxTurmas
    /\ turma_idx = 0
    /\ deletes = {}

NextLimpeza ==
    \/ \E texto \in Confirmacoes : Confirmar(texto)
    \/ \E listados \in SUBSET Itens : deletar_materiais(listados)
    \/ \E listados \in SUBSET Itens : deletar_coursework(listados)

SpecLimpeza == InitLimpeza /\ [][NextLimpeza]_vars

(***************************************************************************)
(* sincronizar_notas_forms_por_links.py: main reads the scores of the      *)
(* spreadsheet and writes them as grades of the students' submissions,     *)
(* coursework by coursework.                                               *)
(***************************************************************************)

\* number of courseworks listar_courseworks may return
MaxTarefas == 2

\* the students of the course: the one of FALLBACK_EMAIL_MAP, who is always
\* mapped, and one the students().list call may return
Alunos == {"fallback", "aluno"}

\* the e-mails a row of the spreadsheet may carry
Emails == Alunos \cup {"outro"}

\* the scores of the spreadsheet, and the mark of an e-mail with no row
Notas == 0..3
SemNota == -1

\* maxPoints of a coursework; SemMaxPoints stands for None
SemMaxPoints == -1
MaxPoints == {SemMaxPoints, 0, 2}

\* the courseworks of the course: with or without a link material that
\* points to a Google Form
Tarefas == [forms_link : BOOLEAN, maxPoints : MaxPoints]

SemNotas == [e \in Emails |-> SemNota]

\* the grade, were it written as read
NotaAplicadaSemLimite(nota, max_points) ==
    nota

\* nota_aplicada = float(nota); if max_points is not None and
\* nota_aplicada > float(max_points): nota_aplicada = float(max_points)
NotaAplicada(nota, max_points) ==
    IF max_points # SemMaxPoints /\ nota > max_points THEN max_points
    ELSE nota

\* the body of the patch call for one e-mail of notas_forms
Patch(email, nota, max_points, ok) ==
    [email |-> email,
     draftGrade |-> NotaAplicada(nota, max_points),
     assignedGrade |-> NotaAplicada(nota, max_points),
     ok |-> ok]

\* main up to the loop: sys.exit(0) with no student mapped or no coursework
Preparar ==
    /\ fase_notas = "inicio"
    /\ fase_notas' = IF mapa_email_para_user = {} \/ total_works = 0
                     THEN "saiu" ELSE "proxima"
    /\ UNCHANGED <<mapa_email_para_user, total_works, cw_idx, cw,
                   notas_forms, mapa_user_para_sub, patches>>
    /\ UNCHANGED <<varsQuiz, varsCursos, varsSlides, varsLimpeza>>

\* for cw in works: the next coursework
ProximaTarefa(tarefa) ==
    /\ fase_notas = "proxima"
    /\ cw_idx < total_works
    /\ cw_idx' = cw_idx + 1
    /\ cw' = tarefa
    /\ notas_forms' = SemNotas
    /\ mapa_user_para_sub' = {}
    /\ patches' = {}
    /\ fase_notas' = "planilha"
    /\ UNCHANGED <<mapa_email_para_user, total_works>>
    /\ UNCHANGED <<varsQuiz, varsCursos, varsSlides, varsLimpeza>>

\* notas_forms = mapear_notas_do_forms_via_sheets(...); continue on an
\* HttpError and on an empty result
mapear_notas_do_forms_via_sheets(notas, falha) ==
    /\ fase_notas = "planilha"
    /\ notas_forms' = IF falha THEN notas_forms ELSE notas
    /\ fase_notas' = IF falha \/ notas = SemNotas THEN "proxima"
                     ELSE "submissoes"
    /\ UNCHANGED <<mapa_email_para_user, total_works, cw_idx, cw,
                   mapa_user_para_sub, patches>>
    /\ UNCHANGED <<varsQuiz, varsCursos, varsSlides, varsLimpeza>>

\* mapa_user_para_sub = mapear_submissoes_por_user(...); continue when empty
mapear_submissoes_por_user(subs) ==
    /\ fase_notas = "submissoes"
    /\ mapa_user_para_sub' = subs
    /\ fase_notas' = IF subs = {} THEN "proxima" ELSE "aplicar"
    /\ UNCHANGED <<mapa_email_para_user, total_works, cw_idx, cw,
                   notas_forms, patches>>
    /\ UNCHANGED <<varsQuiz, varsCursos, varsSlides, varsLimpeza>>

\* aplicar_notas(...): one patch for every e-mail of notas_forms that is a
\* mapped student with a submission; falhas are the patches that raise
aplicar_notas(falhas) ==
    /\ fase_notas = "aplicar"
    /\ patches' =
          {Patch(e, notas_forms[e], cw.maxPoints, e \notin falhas) :
              e \in {x \in Emails : /\ notas_forms[x] # SemNota
                                    /\ x \in mapa_email_para_user
                                    /\ x \in mapa_user_para_sub}}
    /\ fase_notas' = "proxima"
    /\ UNCHANGED <<mapa_email_para_user, total_works, cw_idx, cw,
                   notas_forms, mapa_user_para_sub>>
    /\ UNCHANGED <<varsQuiz, varsCursos, varsSlides, varsLimpeza>>

\* the end of the loop over works
Concluir ==
    /\ fase_notas = "proxima"
    /\ cw_idx = total_works
    /\ fase_notas' = "concluido"
    /\ UNCHANGED <<mapa_email_para_user, total_works, cw_idx, cw,
                   notas_forms, mapa_user_para_sub, patches>>
    /\ UNCHANGED <<varsQuiz, varsCursos, varsSlides, varsLimpeza>>

\* main after escolher_turma, the students mapped and the courseworks listed
InitNotas ==
    /\ QuizInicial
    /\ CursosFora
    /\ SlidesFora
    /\ LimpezaFora
    /\ mapa_email_para_user \in {{"fallback"}, Alunos}
    /\ total_works \in 0..MaxTarefas
    /\ cw_idx = 0
    /\ fase_notas = "inicio"
    /\ cw = SemTarefa
    /\ notas_forms = SemNotas
    /\ mapa_user_para_sub = {}
    /\ patches = {}

NextNotas ==
    \/ Preparar
    \/ \E tarefa \in Tarefas : ProximaTarefa(tarefa)
    \/ \E notas \in [Emails -> Notas \cup {SemNota}], falha \in BOOLEAN :
          mapear_notas_do_forms_via_sheets(notas, falha)
    \/ \E subs \in SUBSET Alunos : mapear_submissoes_por_user(subs)
    \/ \E falhas \in SUBSET Alunos : aplicar_notas(falhas)
    \/ Concluir

SpecNotas == InitNotas /\ [][NextNotas]_vars

(***************************************************************************)
(* Vocabulary of the properties, read off the pasted lines.                *)
(***************************************************************************)

\* parse_bloco has been called and main has not moved on yet
Chamado == pc \in {"parsed", "exited"}

\* the blocks the first pass collects from the pasted text
Blocos == ColetarBlocos(StripNewlines(linhas_bloco), <<>>, <<>>)

\* the title line of a block, and the lines after it
Titulo(b) == LinhasP(b)[1]
Corpo(b) == Tail(LinhasP(b))

\* the alternative lines and the answer-key lines of a block, in order
LinhasAlt(b) == SelectSeq(Corpo(b), MatchAlt)
LinhasGab(b) == SelectSeq(Corpo(b), MatchGabarito)

\* the answer-key letter a block declares (the one in force at its end)
LetraDeclarada(b) == GabaritoLetra(LinhasGab(b)[Len(LinhasGab(b))])

\* some alternative line of the block carries the letter
TemAlternativa(b, letra) ==
    \E j \in 1..Len(LinhasAlt(b)) : AltLetra(LinhasAlt(b)[j]) = letra

\* the three validation rules of a block
BlocoValido(b) ==
    /\ Len(LinhasAlt(b)) >= 2
    /\ Len(LinhasGab(b)) >= 1
    /\ TemAlternativa(b, LetraDeclarada(b))

\* every block before the k-th is valid: validation reaches block k
Alcancado(k) == \A j \in 1..(k - 1) : BlocoValido(Blocos[j])

\* the block at which validation stops
Parou(k) == Alcancado(k) /\ ~BlocoValido(Blocos[k])

\* positions of the question-start lines of the pasted text
InicioDePergunta(i) == IsQuestionStart(Strip(linhas_bloco[i]))
Inicios == {i \in 1..Len(linhas_bloco) : InicioDePergunta(i)}

(***************************************************************************)
(* C1: every question returned by parse_bloco has at least two choices and *)
(* a correct index that is a valid zero-based index into its choices.      *)
(***************************************************************************)
C1_QuestoesBemFormadas ==
    pc = "parsed" =>
        \A i \in 1..Len(resultado.perguntas) :
            LET q == resultado.perguntas[i] IN
            /\ Len(q.alternativas) >= 2
            /\ q.correta_idx >= 0
            /\ q.correta_idx < Len(q.alternativas)

\* two questions are returned, one of them keyed on its last choice
C1_Witness ==
    /\ pc = "parsed"
    /\ Len(resultado.perguntas) = 2
    /\ resultado.perguntas[2].correta_idx
          = Len(resultado.perguntas[2].alternativas) - 1

(***************************************************************************)
(* C2: for every returned question, choices[correctIndex] is the text of   *)
(* the alternative line of its block whose letter is the answer-key letter *)
(* the block declares.                                                     *)
(***************************************************************************)
C2_IndiceApontaGabarito ==
    pc = "parsed" =>
        /\ Len(resultado.perguntas) = Len(Blocos)
        /\ \A i \in 1..Len(resultado.perguntas) :
            LET q    == resultado.perguntas[i]
                alts == LinhasAlt(Blocos[i])
                k    == q.correta_idx + 1
            IN
            /\ k \in 1..Len(alts)
            /\ k \in 1..Len(q.alternativas)
            /\ AltLetra(alts[k]) = LetraDeclarada(Blocos[i])
            /\ q.alternativas[k] = AltTexto(alts[k])

\* a returned question with three choices whose key is not the first one
C2_Witness ==
    /\ pc = "parsed"
    /\ \E i \in 1..Len(resultado.perguntas) :
          /\ Len(resultado.perguntas[i].alternativas) = 3
          /\ resultado.perguntas[i].correta_idx >= 1

(***************************************************************************)
(* C3: for every accepted input the i-th question comes from the i-th      *)
(* question-start line (as many questions as question-start lines), and    *)
(* choices[j] is the text of the j-th alternative line of its block.       *)
(***************************************************************************)

\* the lines from the i-th line up to the next question-start line
RECURSIVE Trecho(_)
Trecho(i) ==
    IF i > Len(linhas_bloco) \/ InicioDePergunta(i) THEN <<>>
    ELSE <<linhas_bloco[i]>> \o Trecho(i + 1)

\* the block opened by the question-start line at position i: the text
\* after its colon, then the lines that follow it
BlocoDoInicio(i) ==
    (IF Depois(Strip(linhas_bloco[i])) # <<>>
        THEN <<Depois(Strip(linhas_bloco[i]))>> ELSE <<>>) \o Trecho(i + 1)

\* the position of the n-th question-start line
RECURSIVE EnesimoInicio(_, _)
EnesimoInicio(n, i) ==
    IF InicioDePergunta(i) THEN (IF n = 1 THEN i ELSE EnesimoInicio(n - 1, i + 1))
    ELSE EnesimoInicio(n, i + 1)

\* the texts of a sequence of alternative lines
TextosDe(alts) == [j \in 1..Len(alts) |-> AltTexto(alts[j])]

C3_OrdemPreservada ==
    pc = "parsed" =>
        /\ Len(resultado.perguntas) = Cardinality(Inicios)
        /\ \A n \in 1..Len(resultado.perguntas) :
            LET b == BlocoDoInicio(EnesimoInicio(n, 1)) IN
            /\ LinhasP(b) # <<>>
            /\ resultado.perguntas[n].alternativas = TextosDe(LinhasAlt(b))

(***************************************************************************)
(* C4: when some block violates a validation rule, parse_bloco returns no  *)
(* questions at all, also when the blocks before it were valid.            *)
(***************************************************************************)
C4_SemResultadoParcial ==
    (Chamado /\ \E k \in 1..Len(Blocos) : ~BlocoValido(Blocos[k])) =>
        /\ resultado.status = "exit"
        /\ resultado.perguntas = <<>>

\* the run ended on an invalid block that follows a valid one
C4_Witness ==
    /\ pc = "exited"
    /\ Len(Blocos) >= 2
    /\ BlocoValido(Blocos[1])
    /\ ~BlocoValido(Blocos[2])

(***************************************************************************)
(* C5: parse_bloco fails with EmptyInput for every input that is empty or  *)
(* consists only of whitespace (blank lines, spaces, tabs).                *)
(***************************************************************************)
SoEspacos == \A i \in 1..Len(linhas_bloco) : Strip(linhas_bloco[i]) = <<>>

C5_EntradaEmBranco ==
    (Chamado /\ SoEspacos) => resultado.kind = "EmptyInput"

(***************************************************************************)
(* C6: parse_bloco fails with NoQuestionBlocks for every non-empty input   *)
(* that contains no question-start line, whatever its other lines are.     *)
(***************************************************************************)
C6_SemInicioDePergunta ==
    (Chamado /\ ~SoEspacos /\ Inicios = {}) =>
        resultado.kind = "NoQuestionBlocks"

(***************************************************************************)
(* C7: a block with fewer than two alternative lines makes parse_bloco     *)
(* fail with InsufficientChoices and report the title of that block, also  *)
(* when it has exactly one alternative and an answer key naming it.        *)
(***************************************************************************)
C7_PoucasAlternativas ==
    Chamado =>
        \A k \in 1..Len(Blocos) :
            (Alcancado(k) /\ Len(LinhasAlt(Blocos[k])) < 2) =>
                /\ resultado.status = "exit"
                /\ resultado.kind = "InsufficientChoices"
                /\ resultado.enunciado = Titulo(Blocos[k])

\* the failing block follows a valid one, has exactly one alternative and
\* an answer key that names it
C7_Witness ==
    /\ pc = "exited"
    /\ resultado.kind = "InsufficientChoices"
    /\ Len(Blocos) = 2
    /\ BlocoValido(Blocos[1])
    /\ Len(LinhasAlt(Blocos[2])) = 1
    /\ Len(LinhasGab(Blocos[2])) = 1
    /\ TemAlternativa(Blocos[2], LetraDeclarada(Blocos[2]))

(***************************************************************************)
(* C8: a block with two or more alternatives and no answer-key line makes  *)
(* parse_bloco fail with MissingAnswerKey and report that block's title.   *)
(***************************************************************************)
C8_SemGabarito ==
    Chamado =>
        \A k \in 1..Len(Blocos) :
            (/\ Alcancado(k)
             /\ Len(LinhasAlt(Blocos[k])) >= 2
             /\ Len(LinhasGab(Blocos[k])) = 0) =>
                /\ resultado.status = "exit"
                /\ resultado.kind = "MissingAnswerKey"
                /\ resultado.enunciado = Titulo(Blocos[k])

\* the failing block follows a valid one and has alternatives enough
C8_Witness ==
    /\ pc = "exited"
    /\ resultado.kind = "MissingAnswerKey"
    /\ Len(Blocos) = 2
    /\ BlocoValido(Blocos[1])
    /\ Len(LinhasAlt(Blocos[2])) >= 2
    /\ Len(LinhasGab(Blocos[2])) = 0

(***************************************************************************)
(* C9: a block with two or more alternatives whose answer-key letter is    *)
(* the letter of none of them makes parse_bloco fail with                  *)
(* AnswerKeyMismatch and report the expected letter and the block's title. *)
(***************************************************************************)
C9_GabaritoSemAlternativa ==
    Chamado =>
        \A k \in 1..Len(Blocos) :
            (/\ Alcancado(k)
             /\ Len(LinhasAlt(Blocos[k])) >= 2
             /\ Len(LinhasGab(Blocos[k])) >= 1
             /\ ~TemAlternativa(Blocos[k], LetraDeclarada(Blocos[k]))) =>
                /\ resultado.status = "exit"
                /\ resultado.kind = "AnswerKeyMismatch"
                /\ ToLower(resultado.letra) = LetraDeclarada(Blocos[k])
                /\ resultado.enunciado = Titulo(Blocos[k])

\* the failing block follows a valid one; the letter S is reported
C9_Witness ==
    /\ pc = "exited"
    /\ resultado.kind = "AnswerKeyMismatch"
    /\ resultado.letra = "S"
    /\ Len(Blocos) = 2
    /\ BlocoValido(Blocos[1])
    /\ Len(LinhasAlt(Blocos[2])) >= 2

(***************************************************************************)
(* C10: changing the letter case of a question-start marker, of an         *)
(* alternative's letter or of the letters of an answer-key line never      *)
(* changes the outcome of parse_bloco: the same questions are returned, or *)
(* the same failure kind occurs.                                           *)
(***************************************************************************)
Caixa(c, maiuscula) == IF maiuscula THEN ToUpper(c) ELSE ToLower(c)

\* one line with its marker letters in the given case
LinhaNaCaixa(linha, maiuscula) ==
    LET a == LeadingSpaces(linha)
        s == Strip(linha)
    IN  IF IsQuestionStart(s) \/ MatchAlt(s) THEN
            [linha EXCEPT ![a + 1] = Caixa(linha[a + 1], maiuscula)]
        ELSE IF MatchGabarito(s) THEN
            LET g == a + 3 + LeadingSpaces(From(s, 3)) IN
            [linha EXCEPT ![a + 1] = Caixa(linha[a + 1], maiuscula),
                          ![g] = Caixa(linha[g], maiuscula)]
        ELSE linha

\* the text with the marker letters of every question-start, alternative
\* and answer-key line in the given case; title lines are left as they are
RECURSIVE NaCaixa(_, _, _)
NaCaixa(linhas, titulo, maiuscula) ==
    IF linhas = <<>> THEN <<>>
    ELSE LET linha == Head(linhas)
             s     == Strip(linha)
         IN
        IF s = <<>> THEN
            <<linha>> \o NaCaixa(Tail(linhas), titulo, maiuscula)
        ELSE IF IsQuestionStart(s) THEN
            <<LinhaNaCaixa(linha, maiuscula)>>
                \o NaCaixa(Tail(linhas), Depois(s) = <<>>, maiuscula)
        ELSE IF titulo THEN
            <<linha>> \o NaCaixa(Tail(linhas), FALSE, maiuscula)
        ELSE
            <<LinhaNaCaixa(linha, maiuscula)>>
                \o NaCaixa(Tail(linhas), FALSE, maiuscula)

MesmoDesfecho(r1, r2) ==
    /\ r1.status = r2.status
    /\ r1.kind = r2.kind
    /\ r1.perguntas = r2.perguntas

C10_CaixaIndiferente ==
    Chamado =>
        /\ MesmoDesfecho(parse_bloco(NaCaixa(linhas_bloco, TRUE, FALSE)),
                         resultado)
        /\ MesmoDesfecho(parse_bloco(NaCaixa(linhas_bloco, TRUE, TRUE)),
                         resultado)

(***************************************************************************)
(* C11: parse_bloco has no side effect: on success and on every failure it *)
(* writes nothing to the operator's output and does not terminate the      *)
(* program; a failure reaches the caller as a result of its own kind.      *)
(***************************************************************************)
C11_SemEfeitoColateral ==
    Chamado => (stdout = <<>> /\ pc # "exited")

(***************************************************************************)
(* C12: when a block contains more than one answer-key line, only the      *)
(* first such line governs: the block's correct key is the letter of the   *)
(* first answer-key line and the later ones do not change it.              *)
(***************************************************************************)

\* an answer-key line occurs before the next question-start line
RECURSIVE GabaritoAdiante(_)
GabaritoAdiante(linhas) ==
    IF linhas = <<>> THEN FALSE
    ELSE LET s == Strip(Head(linhas)) IN
        IF s # <<>> /\ IsQuestionStart(s) THEN FALSE
        ELSE MatchGabarito(s) \/ GabaritoAdiante(Tail(linhas))

\* the text without the answer-key lines that follow another answer-key
\* line of the same block (title lines are no answer-key lines)
RECURSIVE SoPrimeiroGabarito(_, _, _)
SoPrimeiroGabarito(linhas, titulo, visto) ==
    IF linhas = <<>> THEN <<>>
    ELSE LET linha == Head(linhas)
             s     == Strip(linha)
         IN
        IF s = <<>> THEN
            <<linha>> \o SoPrimeiroGabarito(Tail(linhas), titulo, visto)
        ELSE IF IsQuestionStart(s) THEN
            <<linha>> \o SoPrimeiroGabarito(Tail(linhas), Depois(s) = <<>>, FALSE)
        ELSE IF titulo THEN
            <<linha>> \o SoPrimeiroGabarito(Tail(linhas), FALSE, visto)
        ELSE IF MatchGabarito(s) THEN
            (IF visto THEN <<>> ELSE <<linha>>)
                \o SoPrimeiroGabarito(Tail(linhas), FALSE, TRUE)
        ELSE
            <<linha>> \o SoPrimeiroGabarito(Tail(linhas), FALSE, visto)

\* the text without the answer-key lines that are followed by another
\* answer-key line of the same block
RECURSIVE SoUltimoGabarito(_, _)
SoUltimoGabarito(linhas, titulo) ==
    IF linhas = <<>> THEN <<>>
    ELSE LET linha == Head(linhas)
             s     == Strip(linha)
         IN
        IF s = <<>> THEN
            <<linha>> \o SoUltimoGabarito(Tail(linhas), titulo)
        ELSE IF IsQuestionStart(s) THEN
            <<linha>> \o SoUltimoGabarito(Tail(linhas), Depois(s) = <<>>)
        ELSE IF titulo THEN
            <<linha>> \o SoUltimoGabarito(Tail(linhas), FALSE)
        ELSE IF MatchGabarito(s) /\ GabaritoAdiante(Tail(linhas)) THEN
            SoUltimoGabarito(Tail(linhas), FALSE)
        ELSE
            <<linha>> \o SoUltimoGabarito(Tail(linhas), FALSE)

\* C12 as stated: the outcome is that of the text with only the first
\* answer-key line of each block
C12_PrimeiroGabaritoGoverna ==
    Chamado =>
        parse_bloco(SoPrimeiroGabarito(linhas_bloco, TRUE, FALSE)) = resultado

\* C12 amended: the last answer-key line of a block governs; the outcome is
\* that of the text with only the last answer-key line of each block
C12_UltimoGabaritoGoverna ==
    Chamado =>
        parse_bloco(SoUltimoGabarito(linhas_bloco, TRUE)) = resultado

\* a question was returned for a block whose first and last answer-key
\* lines name different letters
C12_Witness ==
    /\ pc = "parsed"
    /\ \E k \in 1..Len(Blocos) :
          /\ Len(LinhasGab(Blocos[k])) >= 2
          /\ GabaritoLetra(LinhasGab(Blocos[k])[1]) # LetraDeclarada(Blocos[k])

(***************************************************************************)
(* C13: inside a block, after its title line, inserting or deleting a      *)
(* non-blank line that is neither an alternative line, nor an answer-key   *)
(* line, nor a question-start line never changes the outcome of            *)
(* parse_bloco (same questions or same failure).                           *)
(***************************************************************************)

\* lines that match none of the three patterns, two of them near misses
LinhasSoltas ==
    { <<"n", "o", "t", "a">>, <<" ", "A", ")">>, <<"G", ":", " ", "1">>,
      <<"P", " ", "1", ":">> }

LinhaSolta(linha) ==
    LET s == Strip(linha) IN
    s # <<>> /\ ~IsQuestionStart(s) /\ ~MatchAlt(s) /\ ~MatchGabarito(s)

\* after the first p lines the current block has its title: the block's
\* question-start line carries it, or a non-blank line came since
RECURSIVE TituloLido(_)
TituloLido(p) ==
    IF p = 0 THEN FALSE
    ELSE LET s == Strip(linhas_bloco[p]) IN
        IF s = <<>> THEN TituloLido(p - 1)
        ELSE IF IsQuestionStart(s) THEN Depois(s) # <<>>
        ELSE TRUE

Inserir(linhas, p, linha) ==
    SubSeq(linhas, 1, p) \o <<linha>> \o SubSeq(linhas, p + 1, Len(linhas))

Remover(linhas, p) ==
    SubSeq(linhas, 1, p - 1) \o SubSeq(linhas, p + 1, Len(linhas))

C13_LinhasSoltasIgnoradas ==
    Chamado =>
        \A p \in 1..Len(linhas_bloco) :
            /\ TituloLido(p) =>
                 \A l \in LinhasSoltas :
                     parse_bloco(Inserir(linhas_bloco, p, l)) = resultado
            /\ (LinhaSolta(linhas_bloco[p]) /\ TituloLido(p - 1)) =>
                 parse_bloco(Remover(linhas_bloco, p)) = resultado

\* a question was returned for a block that holds such a line between its
\* alternatives and its answer key
C13_Witness ==
    /\ pc = "parsed"
    /\ \E p \in 2..(Len(linhas_bloco) - 1) :
          /\ LinhaSolta(linhas_bloco[p])
          /\ MatchAlt(Strip(linhas_bloco[p - 1]))
          /\ MatchGabarito(Strip(linhas_bloco[p + 1]))

(***************************************************************************)
(* C14: the title of each question is the trimmed text after the colon of  *)
(* its question-start line when that text is non-empty, and otherwise the  *)
(* first non-blank line that follows; the title line is never counted as   *)
(* an alternative or as an answer key, even when it has the shape of one.  *)
(***************************************************************************)

\* position of the first non-blank line from position i on (0: none)
RECURSIVE PrimeiraNaoBranca(_)
PrimeiraNaoBranca(i) ==
    IF i > Len(linhas_bloco) THEN 0
    ELSE IF Strip(linhas_bloco[i]) # <<>> THEN i
    ELSE PrimeiraNaoBranca(i + 1)

\* the question-start line at position i opens a block of its own: it has
\* text after its colon or a line before the next question-start line
AbreBloco(i) ==
    \/ Depois(Strip(linhas_bloco[i])) # <<>>
    \/ LET j == PrimeiraNaoBranca(i + 1)
       IN  j # 0 /\ ~InicioDePergunta(j)

\* lines precede the first question-start line
TemPreambulo ==
    LET j == PrimeiraNaoBranca(1) IN j # 0 /\ ~InicioDePergunta(j)

\* the position of the question-start line of the n-th collected block
\* (0 for the lines that precede the first one)
RECURSIVE OrigemDe(_, _)
OrigemDe(n, i) ==
    IF i > Len(linhas_bloco) THEN 0
    ELSE IF InicioDePergunta(i) /\ AbreBloco(i) THEN
        (IF n = 1 THEN i ELSE OrigemDe(n - 1, i + 1))
    ELSE OrigemDe(n, i + 1)

Origem(n) ==
    IF TemPreambulo THEN (IF n = 1 THEN 0 ELSE OrigemDe(n - 1, 1))
    ELSE OrigemDe(n, 1)

\* the non-blank lines that follow position i up to the next start line
RECURSIVE Seguintes(_)
Seguintes(i) ==
    IF i > Len(linhas_bloco) \/ InicioDePergunta(i) THEN <<>>
    ELSE IF Strip(linhas_bloco[i]) = <<>> THEN Seguintes(i + 1)
    ELSE <<Strip(linhas_bloco[i])>> \o Seguintes(i + 1)

C14_Titulo ==
    pc = "parsed" =>
        \A n \in 1..Len(resultado.perguntas) :
            LET i == Origem(n)
                q == resultado.perguntas[n]
            IN  i # 0 =>
                LET depois == Depois(Strip(linhas_bloco[i]))
                    resto  == Seguintes(i + 1)
                    corpo  == IF depois # <<>> THEN resto ELSE Tail(resto)
                IN
                /\ q.title = IF depois # <<>> THEN depois ELSE Head(resto)
                /\ q.alternativas = TextosDe(SelectSeq(corpo, MatchAlt))
                /\ LET alts == SelectSeq(corpo, MatchAlt)
                       gabs == SelectSeq(corpo, MatchGabarito)
                   IN  /\ gabs # <<>>
                       /\ q.correta_idx + 1 \in 1..Len(alts)
                       /\ AltLetra(alts[q.correta_idx + 1])
                             = GabaritoLetra(gabs[Len(gabs)])

\* a returned question whose title comes from the line after its
\* question-start line and has the shape of an alternative
C14_Witness ==
    /\ pc = "parsed"
    /\ \E n \in 1..Len(resultado.perguntas) :
          /\ Origem(n) # 0
          /\ Depois(Strip(linhas_bloco[Origem(n)])) = <<>>
          /\ MatchAlt(resultado.perguntas[n].title)

(***************************************************************************)
(* C15: a non-title line of a block is collected as an alternative exactly *)
(* when it has the form single letter, close-paren, whitespace, text; its  *)
(* key is the lowercased letter and its choice text the trimmed remainder. *)
(* A line lacking the whitespace after the close-paren is not an           *)
(* alternative.                                                            *)
(***************************************************************************)

\* letter, close-paren, whitespace, text
FormaAltComEspaco(l) ==
    Len(l) >= 4 /\ IsLetterClass(l[1]) /\ l[2] = ")" /\ IsSpace(l[3])

\* letter, close-paren, text, with or without whitespace between them
FormaAlt(l) ==
    Len(l) >= 3 /\ IsLetterClass(l[1]) /\ l[2] = ")"

\* the trimmed remainders of a sequence of such lines
Restos(ls) == [j \in 1..Len(ls) |-> Strip(From(ls[j], 3))]

\* C15 as stated, on the questions returned and on the count check
C15_AlternativaExigeEspaco ==
    Chamado =>
        \A k \in 1..Len(Blocos) :
            LET alts == SelectSeq(Corpo(Blocos[k]), FormaAltComEspaco) IN
            /\ (Alcancado(k) /\ Len(alts) < 2) =>
                  resultado.kind = "InsufficientChoices"
            /\ pc = "parsed" =>
                  resultado.perguntas[k].alternativas = Restos(alts)

\* C15 amended: the whitespace after the close-paren is optional
C15_AlternativaSemExigirEspaco ==
    Chamado =>
        \A k \in 1..Len(Blocos) :
            LET alts == SelectSeq(Corpo(Blocos[k]), FormaAlt) IN
            /\ (Alcancado(k) /\ Len(alts) < 2) =>
                  /\ resultado.kind = "InsufficientChoices"
                  /\ resultado.enunciado = Titulo(Blocos[k])
            /\ (Parou(k) /\ resultado.kind = "InsufficientChoices") =>
                  Len(alts) < 2
            /\ pc = "parsed" =>
                  LET q == resultado.perguntas[k] IN
                  /\ q.alternativas = Restos(alts)
                  /\ q.correta_idx + 1 \in 1..Len(alts)
                  /\ ToLower(alts[q.correta_idx + 1][1])
                        = LetraDeclarada(Blocos[k])

\* a question was returned whose keyed choice comes from a line with no
\* whitespace after the close-paren
C15_Witness ==
    /\ pc = "parsed"
    /\ \E k \in 1..Len(Blocos) :
          LET alts == SelectSeq(Corpo(Blocos[k]), FormaAlt)
              c    == resultado.perguntas[k].correta_idx + 1
          IN  c \in 1..Len(alts) /\ ~FormaAltComEspaco(alts[c])

(***************************************************************************)
(* C16: a non-title line of a block is taken as the answer-key declaration *)
(* exactly when it has the form letter G, colon, whitespace, single        *)
(* letter; a line with no whitespace after the colon, or with further text *)
(* after the letter, is not an answer key.                                 *)
(***************************************************************************)

\* G, colon, whitespace, one letter, end of line
FormaGabExata(l) ==
    /\ Len(l) >= 4
    /\ l[1] \in {"G", "g"}
    /\ l[2] = ":"
    /\ LET w == LeadingSpaces(From(l, 3))
       IN  w >= 1 /\ Len(l) = 3 + w /\ IsLetterClass(l[3 + w])

\* G, colon, optional whitespace, a letter, then anything
FormaGab(l) ==
    /\ Len(l) >= 3
    /\ l[1] \in {"G", "g"}
    /\ l[2] = ":"
    /\ LET resto == From(l, 3)
           w     == LeadingSpaces(resto)
       IN  w < Len(resto) /\ IsLetterClass(resto[w + 1])

\* the letter such a line names, lowercased
LetraDe(l) ==
    LET resto == From(l, 3) IN ToLower(resto[LeadingSpaces(resto) + 1])

\* C16 as stated, on the answer-key check of the blocks validation reaches
C16_GabaritoFormaExata ==
    Chamado =>
        \A k \in 1..Len(Blocos) :
            LET gabs == SelectSeq(Corpo(Blocos[k]), FormaGabExata) IN
            (Alcancado(k) /\ Len(LinhasAlt(Blocos[k])) >= 2) =>
                /\ gabs = <<>> =>
                     /\ resultado.kind = "MissingAnswerKey"
                     /\ resultado.enunciado = Titulo(Blocos[k])
                /\ (Parou(k) /\ resultado.kind = "MissingAnswerKey") =>
                     gabs = <<>>

\* C16 amended: the whitespace after the colon is optional and whatever
\* follows the letter is ignored
C16_GabaritoFormaLivre ==
    Chamado =>
        \A k \in 1..Len(Blocos) :
            LET gabs == SelectSeq(Corpo(Blocos[k]), FormaGab)
                alts == LinhasAlt(Blocos[k])
            IN
            (Alcancado(k) /\ Len(alts) >= 2) =>
                /\ gabs = <<>> =>
                     /\ resultado.kind = "MissingAnswerKey"
                     /\ resultado.enunciado = Titulo(Blocos[k])
                /\ (Parou(k) /\ resultado.kind = "MissingAnswerKey") =>
                     gabs = <<>>
                /\ (gabs # <<>> /\ pc = "parsed") =>
                     AltLetra(alts[resultado.perguntas[k].correta_idx + 1])
                        = LetraDe(gabs[Len(gabs)])
                /\ (Parou(k) /\ resultado.kind = "AnswerKeyMismatch") =>
                     /\ gabs # <<>>
                     /\ ToLower(resultado.letra) = LetraDe(gabs[Len(gabs)])

\* a question was returned for a block whose answer-key line carries text
\* after the letter
C16_Witness ==
    /\ pc = "parsed"
    /\ \E k \in 1..Len(Blocos) :
          LET gabs == SelectSeq(Corpo(Blocos[k]), FormaGab)
          IN  gabs # <<>> /\ ~FormaGabExata(gabs[Len(gabs)])
                         /\ IsSpace(gabs[Len(gabs)][3])

(***************************************************************************)
(* C17: parse_bloco never skips a block: every question-start line of the  *)
(* input either contributes one question to the returned list or makes the *)
(* whole parse fail, including a question-start line with no text after    *)
(* its colon and no line before the next question-start line or the end.   *)
(***************************************************************************)
C17_NenhumBlocoPulado ==
    pc = "parsed" =>
        /\ Len(resultado.perguntas) >= Cardinality(Inicios)
        /\ \A i \in Inicios :
              LET b == BlocoDoInicio(i) IN
              /\ LinhasP(b) # <<>>
              /\ \E n \in 1..Len(resultado.perguntas) :
                    resultado.perguntas[n].alternativas
                       = TextosDe(LinhasAlt(b))

(***************************************************************************)
(* C18: criar_quiz_forms issues exactly one add-item request per question, *)
(* in the order of the question list (the i-th question, counted from 0,   *)
(* is placed at form index i), with the item's options in the order of the *)
(* choices and with choices[correctIndex] as the graded correct answer.    *)
(***************************************************************************)
EhBatchUpdate(c) == c.api = "forms.batchUpdate"
EhCreateItem(r) == r.tipo = "createItem"

C18_UmItemPorQuestao ==
    LET lotes == SelectSeq(chamadas, EhBatchUpdate) IN
    /\ Len(lotes) <= 1
    /\ pc \in {"forms", "feito"} => Len(lotes) = 1
    /\ \A c \in 1..Len(lotes) :
          LET itens == SelectSeq(lotes[c].requests, EhCreateItem)
              qs    == resultado.perguntas
          IN  /\ Len(itens) = Len(qs)
              /\ \A n \in 1..Len(itens) :
                    /\ itens[n].index = n - 1
                    /\ itens[n].title = qs[n].title
                    /\ itens[n].options = qs[n].alternativas
                    /\ itens[n].correctAnswers =
                          <<qs[n].alternativas[qs[n].correta_idx + 1]>>

\* the batch was issued for two questions, the second keyed on a choice
\* other than its first
C18_Witness ==
    /\ pc = "forms"
    /\ Len(resultado.perguntas) >= 2
    /\ resultado.perguntas[2].correta_idx >= 1
    /\ \E c \in 1..Len(chamadas) :
          /\ EhBatchUpdate(chamadas[c])
          /\ Len(chamadas[c].requests) = 1 + Len(resultado.perguntas)

(***************************************************************************)
(* C19: delete_archived_course issues the remote delete only when the      *)
(* course state it has just fetched is ARCHIVED; for a course in any other *)
(* state it issues no delete and returns False.  Consequently, in          *)
(* run_manager a course whose archiving failed and that is still ACTIVE is *)
(* never deleted.                                                          *)
(***************************************************************************)

\* a delete call for course c is in the log
DeleteEmitido(c) ==
    \E j \in 1..Len(remotas) :
        remotas[j].metodo = "delete" /\ remotas[j].id = c

C19_SoExcluiArquivado ==
    /\ \A j \in 1..Len(remotas) :
          remotas[j].metodo = "delete" =>
              /\ j > 1
              /\ remotas[j - 1] = Remota("get", remotas[j].id, "ARCHIVED")
    /\ \A c \in DOMAIN fetched :
          (fetched[c] \notin {None, "ARCHIVED"}) =>
              /\ excluido[c] = PyFalse
              /\ ~DeleteEmitido(c)
    /\ \A c \in DOMAIN fetched :
          (arquivado[c] = PyFalse /\ fetched[c] = "ACTIVE") =>
              /\ ~DeleteEmitido(c)
              /\ course_state[c] # "DELETED"

\* run_manager ended having failed to archive a course that was still
\* ACTIVE when delete_archived_course fetched it, and having deleted another
C19_Witness ==
    /\ etapa = "fim"
    /\ \E c \in DOMAIN fetched :
          /\ arquivado[c] = PyFalse
          /\ fetched[c] = "ACTIVE"
          /\ excluido[c] = PyFalse
    /\ \E d \in DOMAIN fetched : excluido[d] = PyTrue /\ DeleteEmitido(d)

(***************************************************************************)
(* C20: in create_presentation_from_docx each non-empty paragraph has      *)
(* exactly one effect according to its style: a Heading 1 paragraph opens  *)
(* a new slide titled with its text, a Heading 2 paragraph adds one        *)
(* highlighted bullet to the current slide, and any other paragraph adds   *)
(* one plain bullet; a Heading 1 paragraph is not also added as a bullet.  *)
(***************************************************************************)

\* the number of bullets on all the slides
RECURSIVE TotalBullets(_)
TotalBullets(sl) ==
    IF sl = <<>> THEN 0
    ELSE Len(sl[Len(sl)].bullets) + TotalBullets(SubSeq(sl, 1, Len(sl) - 1))

\* the bullet added last to the last slide
UltimoBullet(sl) ==
    sl[Len(sl)].bullets[Len(sl[Len(sl)].bullets)]

\* the effect of reading one non-empty paragraph, with the layout's
\* placeholders present
EfeitoUnico ==
    LET text == Strip(paragrafo'.text)
        style_name == paragrafo'.style
    IN  (lidos' = lidos + 1 /\ placeholders /\ text # <<>>) =>
            IF EhHeading1(style_name) THEN
                /\ Len(slides') > Len(slides)
                /\ slides'[Len(slides')].titulo = text
                /\ TotalBullets(slides') = TotalBullets(slides)
            ELSE
                /\ TotalBullets(slides') = TotalBullets(slides) + 1
                /\ UltimoBullet(slides')
                      = [texto |-> text, destaque |-> EhHeading2(style_name)]

C20_UmEfeitoPorParagrafo == [][EfeitoUnico]_vars

(***************************************************************************)
(* C21: every block that parse_bloco validates starts at a question-start  *)
(* line: non-blank lines that come before the first question-start line of *)
(* the input are never turned into a block, a question, or the title       *)
(* reported by a failure.                                                  *)
(***************************************************************************)

\* the failures that report the title of a block
FalhasDeBloco ==
    {"InsufficientChoices", "MissingAnswerKey", "AnswerKeyMismatch"}

C21_BlocosComecamEmInicio ==
    Chamado =>
        /\ Len(Blocos) <= Cardinality(Inicios)
        /\ pc = "parsed" =>
              Len(resultado.perguntas) <= Cardinality(Inicios)
        /\ resultado.kind \in FalhasDeBloco =>
              \E i \in Inicios :
                  /\ LinhasP(BlocoDoInicio(i)) # <<>>
                  /\ Titulo(BlocoDoInicio(i)) = resultado.enunciado

(***************************************************************************)
(* C26: the NoValidQuestions failure of parse_bloco is unreachable: every  *)
(* block collected by the first pass contains at least one non-blank line, *)
(* so each block either yields a question or triggers another failure, and *)
(* a list returned by parse_bloco is never empty.                          *)
(***************************************************************************)
C26_NoValidQuestionsInalcancavel ==
    Chamado =>
        /\ resultado.kind # "NoValidQuestions"
        /\ \A k \in 1..Len(Blocos) : LinhasP(Blocos[k]) # <<>>
        /\ pc = "parsed" =>
              /\ resultado.perguntas # <<>>
              /\ Len(resultado.perguntas) = Len(Blocos)

\* parse_bloco was called on a text all of whose question-start lines are
\* bare: nothing after the colon, no line before the next one or the end
C26_Witness ==
    /\ Chamado
    /\ Inicios # {}
    /\ \A i \in Inicios : ~AbreBloco(i)

(***************************************************************************)
(* C22: in limpar_tudo_classroom.main no remote delete of a material or a  *)
(* coursework is issued unless the operator's confirmation input, trimmed, *)
(* is exactly 'APAGAR_TUDO'; with any other input the program ends having  *)
(* deleted nothing.                                                        *)
(***************************************************************************)
C22_SoApagaConfirmado ==
    /\ deletes # {} => Strip(confirm) = APAGAR_TUDO
    /\ (fase_limpeza \notin {"fora", "confirmar"}
          /\ Strip(confirm) # APAGAR_TUDO) =>
            /\ fase_limpeza = "cancelado"
            /\ deletes = {}
    /\ fase_limpeza \in {"materiais", "tarefas", "concluido"} =>
            Strip(confirm) = APAGAR_TUDO

\* the operator typed the word in lower case, with courses listed, and the
\* program ended
C22_Witness ==
    /\ fase_limpeza = "cancelado"
    /\ n_turmas >= 1
    /\ confirm # APAGAR_TUDO
    /\ ConfirmadoSemCaixa(confirm)

(***************************************************************************)
(* C23: in aplicar_notas, whenever the coursework has maxPoints defined,   *)
(* the grade written to a submission (both draftGrade and assignedGrade)   *)
(* never exceeds maxPoints: a spreadsheet score above it is replaced by    *)
(* maxPoints, and a score at or below it is written unchanged.             *)
(***************************************************************************)
C23_NotaLimitada ==
    \A p \in patches :
        LET nota == notas_forms[p.email]
            mp   == cw.maxPoints
        IN  /\ p.draftGrade = p.assignedGrade
            /\ mp # SemMaxPoints =>
                  /\ p.draftGrade <= mp
                  /\ nota > mp => p.draftGrade = mp
                  /\ nota <= mp => p.draftGrade = nota

\* grades were written for a coursework with maxPoints, one for a score
\* above it and one for a score not above it
C23_Witness ==
    /\ cw.maxPoints # SemMaxPoints
    /\ \E p \in patches : notas_forms[p.email] > cw.maxPoints
    /\ \E p \in patches : notas_forms[p.email] <= cw.maxPoints

(***************************************************************************)
(* C24: sincronizar_notas_forms_por_links.main applies spreadsheet grades  *)
(* only to the courseworks of the course that are linked to a Google Form  *)
(* through a link material; a coursework with no Forms link receives no    *)
(* grade update.                                                           *)
(***************************************************************************)
C24_SoTarefasComForms ==
    patches # {} => cw.forms_link

(***************************************************************************)
(* C25: in create_presentation_from_docx no slide ever receives more than  *)
(* MAX_BULLETS (15) bullets, for any sequence of paragraph styles: when    *)
(* the current slide already holds 15, the next bullet goes to a new       *)
(* continuation slide and the count restarts, and a Heading 1 slide also   *)
(* restarts the count.                                                     *)
(***************************************************************************)

\* a slide opened by the break at MAX_BULLETS
EhContinuacao(slide) ==
    /\ slide.titulo # <<>>
    /\ slide.titulo[Len(slide.titulo)] = " (continuação)"

C25_LimiteDeBullets ==
    /\ \A s \in 1..Len(slides) : Len(slides[s].bullets) <= MAX_BULLETS
    /\ bullet_count <= MAX_BULLETS
    /\ current_slide => bullet_count = Len(slides[Len(slides)].bullets)
    /\ \A s \in 2..Len(slides) :
          EhContinuacao(slides[s]) =>
              /\ Len(slides[s - 1].bullets) = MAX_BULLETS
              /\ Len(slides[s].bullets) >= 1

\* a Heading 1 slide that came after the initial slide, was filled up to
\* MAX_BULLETS, and is followed by its continuation slide
C25_Witness ==
    \E s \in 3..Len(slides) :
        /\ EhContinuacao(slides[s])
        /\ slides[s - 1].titulo = titulo_modulo
        /\ Len(slides[s - 1].bullets) = MAX_BULLETS
        /\ Len(slides[s].bullets) >= 1

(***************************************************************************)
(* C27: the two copies of parse_bloco (V3 and V5) are equivalent: for      *)
(* every input text they return the same list of Questions or fail with    *)
(* the same failure kind and the same reported title.                      *)
(***************************************************************************)
C27_V3IgualV5 ==
    Chamado =>
        LET v3 == parse_bloco_V3(linhas_bloco) IN
        /\ v3.status = resultado.status
        /\ v3.kind = resultado.kind
        /\ v3.enunciado = resultado.enunciado
        /\ v3.perguntas = resultado.perguntas

\* both copies return the same question for a block with two answer-key
\* lines that name different alternatives
C27_Witness ==
    /\ pc = "parsed"
    /\ parse_bloco_V3(linhas_bloco).perguntas = resultado.perguntas
    /\ \E k \in 1..Len(Blocos) :
          /\ Len(LinhasGab(Blocos[k])) >= 2
          /\ GabaritoLetra(LinhasGab(Blocos[k])[1]) # LetraDeclarada(Blocos[k])

(***************************************************************************)
(* C28: when several validation rules are violated, the failure reported   *)
(* by parse_bloco is that of the first invalid block in input order, and   *)
(* within that block InsufficientChoices takes precedence over             *)
(* MissingAnswerKey, which takes precedence over AnswerKeyMismatch (a      *)
(* block with fewer than 2 alternatives and no answer key reports          *)
(* InsufficientChoices).                                                   *)
(***************************************************************************)

\* the failure of an invalid block, by the order of the rules
FalhaDoBloco(b) ==
    IF Len(LinhasAlt(b)) < 2 THEN "InsufficientChoices"
    ELSE IF Len(LinhasGab(b)) = 0 THEN "MissingAnswerKey"
    ELSE "AnswerKeyMismatch"

C28_PrecedenciaDasFalhas ==
    Chamado =>
        \A k \in 1..Len(Blocos) :
            Parou(k) =>
                /\ resultado.status = "exit"
                /\ resultado.kind = FalhaDoBloco(Blocos[k])
                /\ resultado.enunciado = Titulo(Blocos[k])

\* the first invalid block has fewer than 2 alternatives and no answer key,
\* and a later block breaks another rule
C28_Witness ==
    /\ Chamado
    /\ \E k \in 1..Len(Blocos) :
          /\ Parou(k)
          /\ Len(LinhasAlt(Blocos[k])) < 2
          /\ Len(LinhasGab(Blocos[k])) = 0
          /\ resultado.kind = "InsufficientChoices"
          /\ \E j \in (k + 1)..Len(Blocos) :
                /\ ~BlocoValido(Blocos[j])
                /\ FalhaDoBloco(Blocos[j]) # "InsufficientChoices"
                /\ Titulo(Blocos[j]) # Titulo(Blocos[k])

(***************************************************************************)
(* C29: in the quiz-creation programs (V3 and V5 main) no remote write     *)
(* (form creation, permission grant, item batch update, coursework         *)
(* creation) is issued before parse_bloco has succeeded on the whole       *)
(* pasted text: on any parse failure the run ends with no form and no      *)
(* coursework created, and the coursework is created only after the form   *)
(* and its items exist.                                                    *)
(***************************************************************************)

\* the positions of the log that hold a call of the API method
Posicoes(api) == {n \in 1..Len(chamadas) : chamadas[n].api = api}

C29_EscritasSoAposParse ==
    /\ chamadas # <<>> =>
          /\ resultado.status = "return"
          /\ resultado.perguntas = parse_bloco(linhas_bloco).perguntas
          /\ pc \in {"forms", "feito", "erro"}
    /\ pc \in {"lendo", "parsed", "exited"} => chamadas = <<>>
    /\ \A n \in Posicoes("courseWork.create") :
          /\ \E a \in Posicoes("forms.create") : a < n
          /\ \E b \in Posicoes("forms.batchUpdate") :
                /\ b < n
                /\ Len(chamadas[b].requests) = Len(resultado.perguntas) + 1

\* the coursework was created, last of all the remote calls, after the
\* permission grant of the V5 program
C29_Witness ==
    /\ pc = "feito"
    /\ Posicoes("courseWork.create") = {Len(chamadas)}
    /\ Posicoes("drive.permissions.create") # {}

(***************************************************************************)
(* C30: for every Question accepted by parse_bloco, the form item built by *)
(* criar_quiz_forms has exactly one option marked as the correct answer:   *)
(* the correct-answer value, which is given by choice text, equals the     *)
(* text of exactly one of the item's options (also when two alternatives   *)
(* of a block carry the same text or the same letter).                     *)
(***************************************************************************)

\* the options of the item whose text is the correct-answer value
OpcoesCorretas(item) ==
    {j \in 1..Len(item.options) : item.options[j] = item.correctAnswers[1]}

C30_UmaOpcaoCorreta ==
    \A c \in 1..Len(chamadas) :
        EhBatchUpdate(chamadas[c]) =>
            \A n \in 1..Len(chamadas[c].requests) :
                EhCreateItem(chamadas[c].requests[n]) =>
                    /\ Len(chamadas[c].requests[n].correctAnswers) = 1
                    /\ Cardinality(OpcoesCorretas(chamadas[c].requests[n])) = 1

====
